---- MODULE Spec2Model ----
(***************************************************************************)
(* A model of the natural-language-to-MongoDB agent:                       *)
(*   - mongo_chat_agent.py: MongoDBConnector.execute_query, PromptBuilder, *)
(*     MongoDBChatAgent.process_query (safety gate, join template, prompt, *)
(*     model call, command recovery, dispatch);                            *)
(*   - dynamic_query_generator.py: DynamicQueryGenerator.                  *)
(* Text is a sequence of one-character strings, so that substring tests,   *)
(* the bracket scan, the key-repair substitution and the decoders work on  *)
(* characters as the Python code does.                                     *)
(***************************************************************************)
EXTENDS Integers, Sequences, FiniteSets, TLC

\* ------------------------------------------------------------------ text

LowerSeq == <<"a","b","c","d","e","f","g","h","i","j","k","l","m","n","o","p","q","r","s","t","u","v","w","x","y","z">>
UpperSeq == <<"A","B","C","D","E","F","G","H","I","J","K","L","M","N","O","P","Q","R","S","T","U","V","W","X","Y","Z">>
DigitSeq == <<"0","1","2","3","4","5","6","7","8","9">>

Range(f) == {f[i] : i \in DOMAIN f}
LowerLetters == Range(LowerSeq)
UpperLetters == Range(UpperSeq)
Digits == Range(DigitSeq)
Letters == LowerLetters \cup UpperLetters
\* \s of the regular expressions and the whitespace the decoders skip
WhiteSpace == {" ", "\n", "\t"}

Min(a, b) == IF a < b THEN a ELSE b

\* str.lower() on one character
LowerChar(c) ==
  IF c \in UpperLetters
    THEN LowerSeq[CHOOSE i \in 1..26 : UpperSeq[i] = c]
    ELSE c

\* str.lower()
lower(s) == [i \in 1..Len(s) |-> LowerChar(s[i])]

\* s[i:].startswith(w), i 1-based
StartsAt(s, i, w) ==
  /\ i >= 1
  /\ i + Len(w) - 1 <= Len(s)
  /\ \A j \in 1..Len(w) : s[i + j - 1] = w[j]

\* Python's `w in s` on strings
Contains(s, w) == \E i \in 1..(Len(s) - Len(w) + 1) : StartsAt(s, i, w)

\* str.find(c) + 1: the 1-based index of the first c, 0 when there is none
Find(s, c) ==
  IF \E i \in 1..Len(s) : s[i] = c
    THEN CHOOSE i \in 1..Len(s) : s[i] = c /\ \A k \in 1..(i - 1) : s[k] # c
    ELSE 0

\* str.rfind(c) + 1: the 1-based index of the last c, 0 when there is none
RFind(s, c) ==
  IF \E i \in 1..Len(s) : s[i] = c
    THEN CHOOSE i \in 1..Len(s) : s[i] = c /\ \A k \in (i + 1)..Len(s) : s[k] # c
    ELSE 0

\* The first index >= i that holds no whitespace (Len(s) + 1 when none does)
SkipWs(s, i) ==
  CHOOSE j \in i..(Len(s) + 1) :
    /\ \A k \in i..(j - 1) : s[k] \in WhiteSpace
    /\ (j = Len(s) + 1 \/ s[j] \notin WhiteSpace)

\* The last index of the run of characters of `cls` that starts at i (i - 1 when
\* s[i] is not in cls): a greedy character-class repetition
RunEnd(s, i, cls) ==
  CHOOSE j \in (i - 1)..Len(s) :
    /\ \A k \in i..j : s[k] \in cls
    /\ (j = Len(s) \/ s[j + 1] \notin cls)

RECURSIVE Concat(_)
\* "".join(parts)
Concat(parts) ==
  IF parts = <<>> THEN <<>> ELSE Head(parts) \o Concat(Tail(parts))

RECURSIVE Join(_, _)
\* sep.join(parts)
Join(parts, sep) ==
  IF parts = <<>> THEN <<>>
  ELSE IF Len(parts) = 1 THEN parts[1]
  ELSE parts[1] \o sep \o Join(Tail(parts), sep)

DigitVal(c) == (CHOOSE i \in 1..10 : DigitSeq[i] = c) - 1

RECURSIVE NatOfDigits(_)
\* int(digits) for a non-empty run of decimal digits
NatOfDigits(ds) ==
  IF Len(ds) = 0 THEN 0
  ELSE 10 * NatOfDigits(SubSeq(ds, 1, Len(ds) - 1)) + DigitVal(ds[Len(ds)])

RECURSIVE DigitsOfNat(_)
\* str(n) for n >= 0
DigitsOfNat(n) ==
  IF n < 10 THEN <<DigitSeq[n + 1]>>
  ELSE DigitsOfNat(n \div 10) \o <<DigitSeq[(n % 10) + 1]>>

\* str(n) for an integer
IntRepr(n) == IF n < 0 THEN <<"-">> \o DigitsOfNat(0 - n) ELSE DigitsOfNat(n)

\* -------------------------------------------------- structured values
\* A decoded value (dict, list, str, int, bool/None, ObjectId) is a record of one
\* shape: t the kind, s the text of a string / object key / identifier, n the integer,
\* kids the members. A dict keeps its keys in insertion order, one entry per key.

JStr(s) == [t |-> "str", s |-> s, n |-> 0, kids |-> <<>>]
JNum(n) == [t |-> "num", s |-> <<>>, n |-> n, kids |-> <<>>]
JTrue == [t |-> "true", s |-> <<>>, n |-> 0, kids |-> <<>>]
JFalse == [t |-> "false", s |-> <<>>, n |-> 0, kids |-> <<>>]
JNull == [t |-> "null", s |-> <<>>, n |-> 0, kids |-> <<>>]
\* bson.ObjectId: the store's native identifier
JOid(s) == [t |-> "oid", s |-> s, n |-> 0, kids |-> <<>>]
JPair(k, v) == [t |-> "pair", s |-> k, n |-> 0, kids |-> <<v>>]
JObj(pairs) == [t |-> "obj", s |-> <<>>, n |-> 0, kids |-> pairs]
JArr(items) == [t |-> "arr", s |-> <<>>, n |-> 0, kids |-> items]
EmptyObj == JObj(<<>>)
EmptyArr == JArr(<<>>)

HasKey(obj, k) == \E i \in 1..Len(obj.kids) : obj.kids[i].s = k
GetKey(obj, k) == obj.kids[CHOOSE i \in 1..Len(obj.kids) : obj.kids[i].s = k].kids[1]

\* d[k] = v on the entries of a dict: a repeated key keeps its place, the last value wins
PutKey(pairs, k, v) ==
  IF \E i \in 1..Len(pairs) : pairs[i].s = k
    THEN [i \in 1..Len(pairs) |-> IF pairs[i].s = k THEN JPair(k, v) ELSE pairs[i]]
    ELSE Append(pairs, JPair(k, v))

\* ------------------------------------------------------------ decoders
\* json.loads and ast.literal_eval on the texts of this model: objects, arrays,
\* strings without escapes, integers and the three literals. mode "json" is
\* json.loads (double-quoted strings, true/false/null, no trailing comma); mode
\* "py" is ast.literal_eval (either quote, True/False/None, a trailing comma allowed).

ParseFail == [ok |-> FALSE, val |-> JNull, pos |-> 0]
ParseOk(v, p) == [ok |-> TRUE, val |-> v, pos |-> p]

\* A string literal opening at s[i] with quote q
ParseString(s, i, q) ==
  LET rest == SubSeq(s, i + 1, Len(s))
      close == Find(rest, q)
      body == SubSeq(rest, 1, close - 1)
  IN IF close = 0 \/ \E k \in 1..Len(body) : body[k] \in {"\\", "\n", "\t"}
       THEN ParseFail
       ELSE ParseOk(JStr(body), i + close + 1)

\* An integer literal starting at s[i]
ParseNumber(s, i) ==
  LET d == IF s[i] = "-" THEN i + 1 ELSE i
      e == IF d > Len(s) THEN d - 1 ELSE RunEnd(s, d, Digits)
      ds == SubSeq(s, d, e)
  IN IF e < d \/ (Len(ds) > 1 /\ ds[1] = "0")
       THEN ParseFail
       ELSE ParseOk(JNum(IF s[i] = "-" THEN 0 - NatOfDigits(ds) ELSE NatOfDigits(ds)), e + 1)

\* true / false / null (json) or True / False / None (py) starting at s[i]
ParseLiteral(s, i, mode) ==
  LET e == RunEnd(s, i, Letters)
      w == SubSeq(s, i, e)
  IN IF mode = "json" /\ w = <<"t","r","u","e">> THEN ParseOk(JTrue, e + 1)
     ELSE IF mode = "json" /\ w = <<"f","a","l","s","e">> THEN ParseOk(JFalse, e + 1)
     ELSE IF mode = "json" /\ w = <<"n","u","l","l">> THEN ParseOk(JNull, e + 1)
     ELSE IF mode = "py" /\ w = <<"T","r","u","e">> THEN ParseOk(JTrue, e + 1)
     ELSE IF mode = "py" /\ w = <<"F","a","l","s","e">> THEN ParseOk(JFalse, e + 1)
     ELSE IF mode = "py" /\ w = <<"N","o","n","e">> THEN ParseOk(JNull, e + 1)
     ELSE ParseFail

StringQuotes(mode) == IF mode = "json" THEN {"\""} ELSE {"\"", "'"}

RECURSIVE ParseValue(_, _, _)
RECURSIVE ParseMembers(_, _, _, _)
RECURSIVE ParseElements(_, _, _, _)

\* The dict or list built from the items read so far
ContainerOf(close, acc) == IF close = "}" THEN JObj(acc) ELSE JArr(acc)

\* After a comma, at the first non-blank s[n]: the next item, or (py only) the
\* closing bracket of a trailing comma
AfterComma(s, n, mode, acc, close) ==
  IF mode = "py" /\ n <= Len(s) /\ s[n] = close
    THEN ParseOk(ContainerOf(close, acc), n + 1)
  ELSE IF close = "}" THEN ParseMembers(s, n, mode, acc)
  ELSE ParseElements(s, n, mode, acc)

\* After an item, at the first non-blank s[d]: the closing bracket or a comma
AfterItem(s, d, mode, acc, close) ==
  IF d > Len(s) THEN ParseFail
  ELSE IF s[d] = close THEN ParseOk(ContainerOf(close, acc), d + 1)
  ELSE IF s[d] = "," THEN AfterComma(s, SkipWs(s, d + 1), mode, acc, close)
  ELSE ParseFail

\* A member whose key and value were read: d[key] = value, then the rest
AfterMemberValue(s, key, val, mode, acc) ==
  IF ~val.ok THEN ParseFail
  ELSE AfterItem(s, SkipWs(s, val.pos), mode, PutKey(acc, key.val.s, val.val), "}")

\* A member whose key was read, at the first non-blank s[c]: a colon and a value
AfterMemberKey(s, key, c, mode, acc) ==
  IF c > Len(s) \/ s[c] # ":" THEN ParseFail
  ELSE AfterMemberValue(s, key, ParseValue(s, c + 1, mode), mode, acc)

\* The key read at the start of a member
MemberFrom(s, key, mode, acc) ==
  IF ~key.ok THEN ParseFail
  ELSE AfterMemberKey(s, key, SkipWs(s, key.pos), mode, acc)

\* An element that was read: list.append(value), then the rest
AfterElement(s, val, mode, acc) ==
  IF ~val.ok THEN ParseFail
  ELSE AfterItem(s, SkipWs(s, val.pos), mode, Append(acc, val.val), "]")

\* The value whose first non-blank character is s[j]
ValueAt(s, j, mode) ==
  IF j > Len(s) THEN ParseFail
  ELSE IF s[j] = "{" THEN ParseMembers(s, SkipWs(s, j + 1), mode, <<>>)
  ELSE IF s[j] = "[" THEN ParseElements(s, SkipWs(s, j + 1), mode, <<>>)
  ELSE IF s[j] \in StringQuotes(mode) THEN ParseString(s, j, s[j])
  ELSE IF s[j] \in Digits \cup {"-"} THEN ParseNumber(s, j)
  ELSE IF s[j] \in Letters THEN ParseLiteral(s, j, mode)
  ELSE ParseFail

\* One value starting at the first non-blank character at or after s[i]
ParseValue(s, i, mode) == ValueAt(s, SkipWs(s, i), mode)

\* The members of an object from s[i], the first non-blank after the opening brace
\* or a comma; acc holds the members read so far
ParseMembers(s, i, mode, acc) ==
  IF acc = <<>> /\ i <= Len(s) /\ s[i] = "}" THEN ParseOk(EmptyObj, i + 1)
  ELSE IF i > Len(s) \/ s[i] \notin StringQuotes(mode) THEN ParseFail
  ELSE MemberFrom(s, ParseString(s, i, s[i]), mode, acc)

\* The elements of an array from s[i], the first non-blank after the opening
\* bracket or a comma; acc holds the elements read so far
ParseElements(s, i, mode, acc) ==
  IF acc = <<>> /\ i <= Len(s) /\ s[i] = "]" THEN ParseOk(EmptyArr, i + 1)
  ELSE AfterElement(s, ParseValue(s, i, mode), mode, acc)

\* A parse result taken as the whole text: [ok, val]; text after the value other
\* than blanks is an error
WholeText(s, r) ==
  IF r.ok /\ SkipWs(s, r.pos) > Len(s)
    THEN [ok |-> TRUE, val |-> r.val]
    ELSE [ok |-> FALSE, val |-> JNull]

Decode(s, mode) == WholeText(s, ParseValue(s, 1, mode))

\* json.loads(s): ok = FALSE is the JSONDecodeError
json_loads(s) == Decode(s, "json")

\* ast.literal_eval(s): ok = FALSE is the ValueError / SyntaxError
literal_eval(s) == Decode(s, "py")


\* --------------------------------------------------------- Python text

\* The quoted, escaped body of repr(str)
EscapeQuotes(s) ==
  Concat([i \in 1..Len(s) |-> IF s[i] = "'" THEN <<"\\", "'">> ELSE <<s[i]>>])

\* repr(s) of a str: single quotes unless s holds a single and no double quote
ReprStr(s) ==
  IF Contains(s, <<"'">>) /\ ~Contains(s, <<"\"">>)
    THEN <<"\"">> \o s \o <<"\"">>
    ELSE <<"'">> \o EscapeQuotes(s) \o <<"'">>

RECURSIVE PyRepr(_)
\* repr(v), which is what str(v) is for a dict or a list
PyRepr(v) ==
  CASE v.t = "str" -> ReprStr(v.s)
    [] v.t = "num" -> IntRepr(v.n)
    [] v.t = "true" -> <<"T","r","u","e">>
    [] v.t = "false" -> <<"F","a","l","s","e">>
    [] v.t = "null" -> <<"N","o","n","e">>
    [] v.t = "oid" -> <<"O","b","j","e","c","t","I","d","(","'">> \o v.s \o <<"'",")">>
    [] v.t = "obj" ->
         <<"{">> \o Join([i \in 1..Len(v.kids) |->
                    ReprStr(v.kids[i].s) \o <<":"," ">> \o PyRepr(v.kids[i].kids[1])], <<","," ">>)
                \o <<"}">>
    [] v.t = "arr" ->
         <<"[">> \o Join([i \in 1..Len(v.kids) |-> PyRepr(v.kids[i])], <<","," ">>) \o <<"]">>

\* str(v)
PyStr(v) ==
  CASE v.t = "str" -> v.s
    [] v.t = "oid" -> v.s
    [] OTHER -> PyRepr(v)

\* ----------------------------------------------------- document store
\* The store is an external collaborator: a call either raises or selects n
\* documents (for count_documents, n is the count). db is None when connect() failed.

MaxStoreDocs == 12

ExcStore == <<"s","t","o","r","e"," ","t","i","m","e","o","u","t">>
ExcNoDb == <<"'","N","o","n","e","T","y","p","e","'"," ","o","b","j","e","c","t"," ","i","s"," ","n","o","t"," ","s","u","b","s","c","r","i","p","t","a","b","l","e">>
ExcPop == <<"p","o","p"," ","f","r","o","m"," ","e","m","p","t","y"," ","l","i","s","t">>

StoreOutcomes ==
  {[raises |-> TRUE, msg |-> ExcStore, n |-> 0]}
    \cup {[raises |-> FALSE, msg |-> <<>>, n |-> k] : k \in 0..MaxStoreDocs}

\* What a store call can do given self.db
OutcomesFor(db) ==
  IF db THEN StoreOutcomes ELSE {[raises |-> TRUE, msg |-> ExcNoDb, n |-> 0]}

\* The i-th stored document: a native identifier in _id and in a reference field
StoreDoc(i) ==
  JObj(<<JPair(<<"_","i","d">>, JOid(<<"a">> \o DigitsOfNat(i))),
         JPair(<<"c","u","s","t","o","m","e","r","I","d">>, JOid(<<"c">> \o DigitsOfNat(i))),
         JPair(<<"s","t","a","t","u","s">>, JStr(<<"n","e","w">>))>>)

StoreDocs(n) == [i \in 1..n |-> StoreDoc(i)]

\* cursor.limit(k)
Limit(docs, k) == SubSeq(docs, 1, Min(k, Len(docs)))

\* {$project: spec} on one document: a field mapped to 0 is left out, one mapped to 1
\* is copied when present, any other expression is a computed text field; _id stays
\* unless it is mapped to 0
ProjectDoc(doc, spec) ==
  LET keepId == HasKey(doc, <<"_","i","d">>) /\ ~HasKey(spec, <<"_","i","d">>)
      named == SelectSeq(spec.kids,
                 LAMBDA p : IF p.kids[1].t = "num"
                              THEN p.kids[1].n # 0 /\ HasKey(doc, p.s)
                              ELSE TRUE)
      fields == [i \in 1..Len(named) |->
                   IF named[i].kids[1].t = "num"
                     THEN JPair(named[i].s, GetKey(doc, named[i].s))
                     ELSE JPair(named[i].s, JStr(<<"t","e","x","t">>))]
  IN JObj((IF keepId THEN <<JPair(<<"_","i","d">>, GetKey(doc, <<"_","i","d">>))>> ELSE <<>>) \o fields)

\* One pipeline stage on the documents flowing through it: $limit and $project act
\* on them, the other stages only select (the selection is the outcome's n)
ApplyStage(docs, stage) ==
  IF HasKey(stage, <<"$","l","i","m","i","t">>) /\ GetKey(stage, <<"$","l","i","m","i","t">>).t = "num"
    THEN Limit(docs, GetKey(stage, <<"$","l","i","m","i","t">>).n)
  ELSE IF HasKey(stage, <<"$","p","r","o","j","e","c","t">>) /\ GetKey(stage, <<"$","p","r","o","j","e","c","t">>).t = "obj"
    THEN [i \in 1..Len(docs) |-> ProjectDoc(docs[i], GetKey(stage, <<"$","p","r","o","j","e","c","t">>))]
  ELSE docs

RECURSIVE ApplyStages(_, _)
ApplyStages(docs, stages) ==
  IF stages = <<>> THEN docs
  ELSE ApplyStages(ApplyStage(docs, Head(stages)), Tail(stages))

\* collection.aggregate(pipeline) when the store selects n documents
StoreAggregate(pipeline, n) == ApplyStages(StoreDocs(n), pipeline.kids)

\* A pipeline the driver accepts: a list of stage documents
ValidPipeline(pipeline) ==
  pipeline.t = "arr" /\ \A i \in 1..Len(pipeline.kids) : pipeline.kids[i].t = "obj"

\* One recorded invocation of a collaborator
Call(target, op, coll, arg) == [target |-> target, op |-> op, coll |-> coll, arg |-> arg]

\* ------------------------------------------- MongoDBConnector.execute_query

ResultCap == 10

ExecuteSafetyOps ==
  {<<"$","s","e","t">>, <<"$","u","n","s","e","t">>, <<"$","p","u","s","h">>, <<"$","p","u","l","l">>, <<"d","e","l","e","t","e","O","n","e">>, <<"d","e","l","e","t","e","M","a","n","y">>,
   <<"u","p","d","a","t","e","O","n","e">>, <<"u","p","d","a","t","e","M","a","n","y">>, <<"d","r","o","p">>}

\* any(op in str(query).lower() for op in [...])
IsModificationQuery(query) ==
  \E op \in ExecuteSafetyOps : Contains(lower(PyRepr(query)), op)

ErrorDescriptor(msg) == JObj(<<JPair(<<"e","r","r","o","r">>, JStr(msg))>>)
ModificationError == ErrorDescriptor(<<"D","a","t","a"," ","m","o","d","i","f","i","c","a","t","i","o","n"," ","q","u","e","r","i","e","s"," ","a","r","e"," ","n","o","t"," ","a","l","l","o","w","e","d">>)

\* for doc in results: if '_id' in doc: doc['_id'] = str(doc['_id'])
StringifyId(doc) ==
  IF HasKey(doc, <<"_","i","d">>)
    THEN JObj(PutKey(doc.kids, <<"_","i","d">>, JStr(PyStr(GetKey(doc, <<"_","i","d">>)))))
    ELSE doc

\* execute_query(collection_name, query) with self.db = db and the store behaving as
\* out: [ret, calls, exc]. exc = TRUE is an exception leaving execute_query.
execute_query(db, collection_name, query, out) ==
  IF ~db THEN
    [ret |-> ErrorDescriptor(ExcNoDb), calls |-> <<>>, exc |-> FALSE, msg |-> <<>>]
  ELSE IF IsModificationQuery(query) THEN
    [ret |-> ModificationError, calls |-> <<>>, exc |-> FALSE, msg |-> <<>>]
  ELSE IF out.raises THEN
    [ret |-> ErrorDescriptor(out.msg),
     calls |-> <<Call("store", "find", collection_name, query)>>,
     exc |-> FALSE, msg |-> <<>>]
  ELSE
    LET results == Limit(StoreDocs(out.n), ResultCap)
    IN [ret |-> JArr([i \in 1..Len(results) |-> StringifyId(results[i])]),
        calls |-> <<Call("store", "find", collection_name, query)>>,
        exc |-> FALSE, msg |-> <<>>]

\* ------------------------------------------ ResponseFormatter.format_results

Response(kind, msg, count) == [kind |-> kind, msg |-> msg, count |-> count]
NoResponse == Response("none", <<>>, 0)

format_results(results) ==
  IF results.t = "obj" /\ HasKey(results, <<"e","r","r","o","r">>)
    THEN Response("error_executing", GetKey(results, <<"e","r","r","o","r">>).s, 0)
  ELSE IF Len(results.kids) = 0 THEN Response("no_documents", <<>>, 0)
  ELSE IF Len(results.kids) = 1 /\ results.kids[1].t = "obj"
          /\ HasKey(results.kids[1], <<"_","i","d">>) /\ GetKey(results.kids[1], <<"_","i","d">>).t = "null"
    THEN Response("analysis_result", <<>>, 1)
  ELSE Response("found", <<>>, Len(results.kids))


\* ------------------------------------------------------- command recovery

PreKey == {"{", ","} \cup WhiteSpace
IdentStart == Letters \cup {"_", "$"}
IdentChars == Letters \cup Digits \cup {"_", "$"}

RECURSIVE FixKeysFrom(_, _)
\* re.sub(r'([{\s,])([a-zA-Z_$][a-zA-Z0-9_$]*)\s*:', r'\1"\2":', s) from s[i] on:
\* leftmost non-overlapping matches, each rewritten, the rest copied
FixKeysFrom(s, i) ==
  IF i > Len(s) THEN <<>>
  ELSE
    LET e == IF i + 1 <= Len(s) /\ s[i] \in PreKey /\ s[i + 1] \in IdentStart
               THEN RunEnd(s, i + 1, IdentChars) ELSE 0
        c == IF e > 0 THEN SkipWs(s, e + 1) ELSE 0
    IN IF e > 0 /\ c <= Len(s) /\ s[c] = ":"
         THEN <<s[i], "\"">> \o SubSeq(s, i + 1, e) \o <<"\"", ":">> \o FixKeysFrom(s, c + 1)
         ELSE <<s[i]>> \o FixKeysFrom(s, i + 1)

\* clean_query_str / clean_pipeline_str
FixUnquotedKeys(s) == FixKeysFrom(s, 1)

CollectionChars == Letters \cup Digits \cup {"_"}
OperationNames == <<<<"f","i","n","d">>, <<"a","g","g","r","e","g","a","t","e">>, <<"c","o","u","n","t","D","o","c","u","m","e","n","t","s">>, <<"c","o","u","n","t">>>>

\* r'db\.([a-zA-Z0-9_]+)\.(find|aggregate|countDocuments|count)\(' matched at s[i]
MatchAt(s, i) ==
  LET e == IF StartsAt(s, i, <<"d","b",".">>) /\ i + 3 <= Len(s)
             THEN RunEnd(s, i + 3, CollectionChars) ELSE 0
      ops == {k \in 1..4 : e >= i + 3
                /\ StartsAt(s, e + 1, <<".">> \o OperationNames[k] \o <<"(">>)}
  IN IF ops = {} THEN [ok |-> FALSE, collection |-> <<>>, operation |-> <<>>, end |-> 0]
     ELSE LET k == CHOOSE k \in ops : TRUE
          IN [ok |-> TRUE, collection |-> SubSeq(s, i + 3, e),
              operation |-> OperationNames[k],
              end |-> e + 1 + Len(OperationNames[k]) + 1]

\* re.search: the leftmost match
SearchInvocation(s) ==
  IF \E i \in 1..Len(s) : MatchAt(s, i).ok
    THEN MatchAt(s, CHOOSE i \in 1..Len(s) :
                      MatchAt(s, i).ok /\ \A k \in 1..(i - 1) : ~MatchAt(s, k).ok)
    ELSE MatchAt(s, 0)

\* A scan that ends the span at the last closing bracket of the text
BracketScanToLast(content, i, depth, open, close) ==
  IF RFind(content, close) >= i THEN RFind(content, close) ELSE -1

RECURSIVE BracketScan(_, _, _, _, _)
\* The stack loop over content[start:]: the index of the bracket that empties the
\* stack, -1 when the text ends first, -2 when stack.pop() finds the stack empty
BracketScan(content, i, depth, open, close) ==
  IF i > Len(content) THEN -1
  ELSE IF content[i] = open THEN BracketScan(content, i + 1, depth + 1, open, close)
  ELSE IF content[i] = close THEN
    IF depth = 0 THEN -2
    ELSE IF depth = 1 THEN i
    ELSE BracketScan(content, i + 1, depth - 1, open, close)
  ELSE BracketScan(content, i + 1, depth, open, close)

\* try: return <decoded> / except: <other>
OrElse(r, other) == IF r.ok THEN r.val ELSE other

\* The decode attempts on a balanced span: json.loads of the key-repaired text, then
\* json.loads and ast.literal_eval of the span itself, then the default
DecodeBalanced(span, default) ==
  OrElse(json_loads(FixUnquotedKeys(span)),
         OrElse(json_loads(span), OrElse(literal_eval(span), default)))

\* The fallback without its decode attempt
DecodeFallbackEmpty(span, default) == default

\* The decode attempt on the span cut at the last closing bracket
DecodeFallback(span, default) == OrElse(json_loads(FixUnquotedKeys(span)), default)

\* RecoverSpan when a scan that ends without a balanced span raises
RecoverSpanStrict(content, start, end, close, default) ==
  IF end < 0 THEN [exc |-> TRUE, val |-> default]
  ELSE [exc |-> FALSE, val |-> DecodeBalanced(SubSeq(content, start, end), default)]

\* The argument from the span the scan found: end is BracketScan's result
RecoverSpan(content, start, end, close, default) ==
  IF end = -2 THEN [exc |-> TRUE, val |-> default]
  ELSE IF end # -1
    THEN [exc |-> FALSE, val |-> DecodeBalanced(SubSeq(content, start, end), default)]
  ELSE [exc |-> FALSE,
        val |-> DecodeFallback(SubSeq(content, start, RFind(content, close)), default)]

\* RecoverFrom when a missing opening bracket raises
RecoverFromStrict(content, start, open, close, default) ==
  IF start = 0 THEN [exc |-> TRUE, val |-> default]
  ELSE RecoverSpan(content, start, BracketScan(content, start, 0, open, close),
                   close, default)

\* start is content.find(open) + 1: 0 when there is no opening bracket
RecoverFrom(content, start, open, close, default) ==
  IF start = 0 THEN [exc |-> FALSE, val |-> default]
  ELSE RecoverSpan(content, start, BracketScan(content, start, 0, open, close),
                   close, default)

\* query_dict / pipeline from content_after_op: [exc, val]
RecoverArgument(content, open, close, default) ==
  RecoverFrom(content, Find(content, open), open, close, default)

FindOperations == {<<"f","i","n","d">>, <<"c","o","u","n","t","D","o","c","u","m","e","n","t","s">>, <<"c","o","u","n","t">>}

NoCommand ==
  [matched |-> FALSE, collection |-> <<>>, operation |-> <<>>, argument |-> JNull,
   exc |-> FALSE]

\* The argument of the matched operation: a filter for find / count, a pipeline
\* for aggregate
ArgumentOf(content_after_op, operation) ==
  IF operation \in FindOperations
    THEN RecoverArgument(content_after_op, "{", "}", EmptyObj)
    ELSE RecoverArgument(content_after_op, "[", "]", EmptyArr)

CommandOf(m, arg) ==
  [matched |-> TRUE, collection |-> m.collection, operation |-> m.operation,
   argument |-> arg.val, exc |-> arg.exc]

\* m is the regular expression's match on query_code
RecoverMatch(query_code, m) ==
  IF ~m.ok THEN NoCommand
  ELSE CommandOf(m, ArgumentOf(SubSeq(query_code, m.end + 1, Len(query_code)),
                               m.operation))

\* The command recovered from the model's text: [matched, collection, operation,
\* argument, exc]
RecoverCommand(query_code) == RecoverMatch(query_code, SearchInvocation(query_code))


\* ------------------------------------------------------------ PromptBuilder
\* Similarity scores are kept in hundredths: 0.3 is 30.

RelevanceThreshold == 30
ContextThreshold == 20

NoRelevantCollection == <<"N","O","_","R","E","L","E","V","A","N","T","_","C","O","L","L","E","C","T","I","O","N">>
OutOfScopeMarker == <<"O","U","T","_","O","F","_","S","C","O","P","E">>

\* What VectorSearchEngine.search_collections can return: the top collections with
\* their scores, highest first (the embedding model is an external collaborator)
Rankings ==
  { <<>>,
    <<[collection |-> <<"o","r","d","e","r","s">>, score |-> 29], [collection |-> <<"c","u","s","t","o","m","e","r","s">>, score |-> 21]>>,
    <<[collection |-> <<"o","r","d","e","r","s">>, score |-> 30], [collection |-> <<"c","u","s","t","o","m","e","r","s">>, score |-> 20],
      [collection |-> <<"p","r","o","d","u","c","t","s">>, score |-> 19]>>,
    <<[collection |-> <<"c","u","s","t","o","m","e","r","s">>, score |-> 62], [collection |-> <<"o","r","d","e","r","s">>, score |-> 35]>> }

\* build_context: the context text and the sample-field reads it makes
build_context(db, ranking) ==
  IF ranking = <<>> \/ ranking[1].score < RelevanceThreshold
    THEN [context |-> NoRelevantCollection, calls |-> <<>>]
    ELSE
      LET shown == SelectSeq(ranking, LAMBDA r : ~(r.score < ContextThreshold))
      IN [context |-> <<"#","#"," ","A","v","a","i","l","a","b","l","e"," ","M","o","n","g","o","D","B"," ","C","o","l","l","e","c","t","i","o","n","s">>
                        \o Concat([i \in 1..Len(shown) |->
                                     <<"#","#","#"," ","C","o","l","l","e","c","t","i","o","n",":"," ">> \o shown[i].collection]),
          calls |-> IF db THEN [i \in 1..Len(shown) |->
                                  Call("store", "find_one", shown[i].collection, JNull)]
                         ELSE <<>>]

SystemPromptDecline ==
  <<"Y","o","u"," ","a","r","e"," ","a"," ","M","o","n","g","o","D","B"," ","q","u","e","r","y"," ","a","s","s","i","s","t","a","n","t","."," ","I","f"," ","t","h","e"," ","u","s","e","r"," ","a","s","k","s"," ","s","o","m","e","t","h","i","n","g"," ","n","o","t"," ","r","e","l","a","t","e","d"," ","t","o"," ","t","h","e"," ","d","a","t","a","b","a","s","e",","," ","p","o","l","i","t","e","l","y"," ","d","e","c","l","i","n","e"," ","a","n","d"," ","s","u","g","g","e","s","t"," ","a"," ","r","e","l","e","v","a","n","t"," ","d","a","t","a","b","a","s","e"," ","q","u","e","r","y",".">>

\* The lines of the system prompt that name the reply markers
SystemPromptReliable ==
  <<"Y","o","u"," ","a","r","e"," ","a"," ","M","o","n","g","o","D","B"," ","q","u","e","r","y"," ","e","x","p","e","r","t","."," ">>
  \o <<"6","."," ","D","o"," ","N","O","T"," ","h","a","l","l","u","c","i","n","a","t","e"," ","-"," ","i","f"," ","y","o","u"," ","c","a","n","'","t"," ","c","o","n","s","t","r","u","c","t"," ","a"," ","v","a","l","i","d"," ","q","u","e","r","y",","," ","s","a","y"," ","\"","U","N","A","B","L","E","_","T","O","_","Q","U","E","R","Y","\""," ">>
  \o <<"-"," ","I","f"," ","u","s","e","r"," ","a","s","k","s"," ","f","o","r"," ","d","a","t","a"," ","m","o","d","i","f","i","c","a","t","i","o","n",","," ","r","e","s","p","o","n","d",":"," ","\"","M","O","D","I","F","I","C","A","T","I","O","N","_","N","O","T","_","A","L","L","O","W","E","D",":"," ","C","a","n","n","o","t"," ","m","o","d","i","f","y"," ","d","a","t","a","b","a","s","e","\""," ">>
  \o <<"-"," ","I","f"," ","u","s","e","r"," ","a","s","k","s"," ","s","o","m","e","t","h","i","n","g"," ","u","n","r","e","l","a","t","e","d"," ","t","o"," ","d","a","t","a","b","a","s","e",","," ","r","e","s","p","o","n","d",":"," ","\"","O","U","T","_","O","F","_","S","C","O","P","E",":"," ","T","h","i","s"," ","q","u","e","s","t","i","o","n"," ","i","s"," ","n","o","t"," ","r","e","l","a","t","e","d"," ","t","o"," ","t","h","e"," ","d","a","t","a","b","a","s","e","\""," ">>
  \o <<"R","e","t","u","r","n"," ","O","N","L","Y"," ","t","h","e"," ","M","o","n","g","o","D","B"," ","q","u","e","r","y"," ","c","o","d","e",","," ","n","o","t","h","i","n","g"," ","e","l","s","e",".">>

\* get_reliable_prompt: [system_prompt, user_prompt, calls]
get_reliable_prompt(db, user_question, ranking) ==
  LET built == build_context(db, ranking)
  IN IF built.context = NoRelevantCollection
       THEN [system_prompt |-> SystemPromptDecline,
             user_prompt |-> <<"U","s","e","r"," ","a","s","k","e","d",":"," ">> \o user_question
                              \o <<" ","T","h","i","s"," ","q","u","e","s","t","i","o","n"," ","d","o","e","s","n","'","t"," ","s","e","e","m"," ","r","e","l","a","t","e","d"," ","t","o"," ","t","h","e"," ","d","a","t","a","b","a","s","e",".">>,
             calls |-> built.calls]
       ELSE [system_prompt |-> SystemPromptReliable,
             user_prompt |-> <<"A","v","a","i","l","a","b","l","e"," ","D","a","t","a","b","a","s","e"," ","S","c","h","e","m","a",":"," ">> \o built.context
                              \o <<" ","U","s","e","r"," ","Q","u","e","s","t","i","o","n",":"," ","\"">> \o user_question \o <<"\"">>,
             calls |-> built.calls]

\* ------------------------------------------------------------ inputs

\* The questions asked
Questions ==
  { <<"d","r","o","p"," ","t","h","e"," ","o","r","d","e","r","s"," ","c","o","l","l","e","c","t","i","o","n">>, <<"D","E","L","E","T","E"," ","o","l","d"," ","u","s","e","r","s">>, <<"U","p","d","a","t","e"," ","p","r","i","c","e","s">>,
    <<"i","n","s","e","r","t"," ","a"," ","r","o","w">>, <<"m","o","d","i","f","y"," ","i","t">>, <<"r","e","m","o","v","e"," ","a","l","l">>, <<"t","r","u","n","c","a","t","e"," ","l","o","g","s">>, <<"a","l","t","e","r"," ","s","c","h","e","m","a">>,
    <<"s","h","o","w"," ","p","e","n","d","i","n","g"," ","o","r","d","e","r","s"," ","w","i","t","h"," ","c","u","s","t","o","m","e","r"," ","n","a","m","e","s">>,
    <<"o","r","d","e","r","s"," ","a","n","d"," ","c","l","i","e","n","t"," ","i","n","f","o">>,
    <<"p","e","n","d","i","n","g"," ","o","r"," ","c","o","m","p","l","e","t","e","d"," ","o","r","d","e","r","s"," ","w","i","t","h"," ","c","u","s","t","o","m","e","r"," ","e","m","a","i","l">>,
    <<"a","p","p","l","y"," ","$","s","e","t"," ","t","o"," ","s","t","a","t","u","s">>,
    <<"h","o","w"," ","m","a","n","y"," ","o","r","d","e","r","s"," ","a","r","e"," ","p","e","n","d","i","n","g">>,
    <<"i","s"," ","t","h","i","s"," ","O","U","T","_","O","F","_","S","C","O","P","E">> }

MaxNest == 1

ArgKeys == {<<"s","t","a","t","u","s">>, <<"$","s","e","t">>}
ArgStrings ==
  { <<"p","e","n","d","i","n","g">>, <<"}">>, <<"{">>, <<"]">>, <<"[">>, <<"x",","," ","b",":"," ","1">>, <<"{"," ","b",":"," ","1">>, <<"d","e","l","e","t","e","O","n","e">>, <<"D","r","o","p">> }
ArgAtoms == {JStr(s) : s \in ArgStrings} \cup {JNum(1)}

RECURSIVE ArgObjects(_)
\* The one-key objects nested at most d levels below the top
ArgObjects(d) ==
  {JObj(<<JPair(k, v)>>) :
     k \in ArgKeys, v \in ArgAtoms \cup (IF d = 0 THEN {} ELSE ArgObjects(d - 1))}

RECURSIVE RenderJson(_)
\* The JSON text of a value, keys quoted, as json.dumps writes it
RenderJson(v) ==
  CASE v.t = "str" -> <<"\"">> \o v.s \o <<"\"">>
    [] v.t = "num" -> IntRepr(v.n)
    [] v.t = "true" -> <<"t","r","u","e">>
    [] v.t = "false" -> <<"f","a","l","s","e">>
    [] v.t = "null" -> <<"n","u","l","l">>
    [] v.t = "obj" ->
         <<"{">> \o Join([i \in 1..Len(v.kids) |->
                    <<"\"">> \o v.kids[i].s \o <<"\"",":"," ">> \o RenderJson(v.kids[i].kids[1])], <<","," ">>)
                \o <<"}">>
    [] v.t = "arr" ->
         <<"[">> \o Join([i \in 1..Len(v.kids) |-> RenderJson(v.kids[i])], <<","," ">>) \o <<"]">>

RECURSIVE RenderBare(_)
\* The shell text of a value, keys written bare as the mongo shell allows
RenderBare(v) ==
  CASE v.t = "obj" ->
         <<"{">> \o Join([i \in 1..Len(v.kids) |->
                    v.kids[i].s \o <<":"," ">> \o RenderBare(v.kids[i].kids[1])], <<","," ">>)
                \o <<"}">>
    [] v.t = "arr" ->
         <<"[">> \o Join([i \in 1..Len(v.kids) |-> RenderBare(v.kids[i])], <<","," ">>) \o <<"]">>
    [] OTHER -> RenderJson(v)

\* Valid arguments with quoted keys: a filter object, or a pipeline of at most one stage
ValidFilters == ArgObjects(MaxNest)
ValidPipelines == {EmptyArr} \cup {JArr(<<f>>) : f \in ValidFilters}

Invocation(coll, op, argText) ==
  <<"d","b",".">> \o coll \o <<".">> \o op \o <<"(">> \o argText \o <<")">>

\* Answers whose argument is valid JSON
ValidCommandTexts ==
  {Invocation(<<"o","r","d","e","r","s">>, <<"f","i","n","d">>, RenderJson(f)) : f \in ValidFilters}
    \cup {Invocation(<<"o","r","d","e","r","s">>, <<"c","o","u","n","t","D","o","c","u","m","e","n","t","s">>, RenderJson(f)) : f \in ValidFilters}
    \cup {Invocation(<<"o","r","d","e","r","s">>, <<"a","g","g","r","e","g","a","t","e">>, RenderJson(p)) : p \in ValidPipelines}

\* Answers whose argument has bare keys and is otherwise valid JSON
BareCommandTexts ==
  {Invocation(<<"o","r","d","e","r","s">>, <<"f","i","n","d">>, RenderBare(f)) : f \in ValidFilters}

\* Answers of other shapes: bare keys, missing or unterminated arguments, prose,
\* the reply markers, the transport's error text
OtherTexts ==
  { <<"d","b",".","o","r","d","e","r","s",".","f","i","n","d","(","{","s","t","a","t","u","s",":","\"","p","e","n","d","i","n","g","\"","}",")">>,
    <<"d","b",".","o","r","d","e","r","s",".","f","i","n","d","(","{","s","t","a","t","u","s",":"," ","\"","c","o","m","p","l","e","t","e","d","\"",","," ","a","m","o","u","n","t",":"," ","{","$","g","t",":"," ","1","0","0","}","}",")">>,
    <<"d","b",".","o","r","d","e","r","s",".","f","i","n","d","(","{","'","s","t","a","t","u","s","'",":"," ","'","p","e","n","d","i","n","g","'","}",")">>,
    <<"d","b",".","o","r","d","e","r","s",".","f","i","n","d","(",")">>,
    <<"d","b",".","o","r","d","e","r","s",".","f","i","n","d","(",")",".","s","o","r","t","(","{","c","r","e","a","t","e","d","A","t",":"," ","-","1","}",")">>,
    <<"d","b",".","o","r","d","e","r","s",".","f","i","n","d","(","{","}",")"," ","t","h","e","n"," ","f","i","l","t","e","r"," ","{","\"","s","t","a","t","u","s","\"",":"," ","\"","p","e","n","d","i","n","g","\"","}">>,
    <<"d","b",".","o","r","d","e","r","s",".","f","i","n","d","(","{","\"","s","t","a","t","u","s","\"",":"," ","1">>,
    <<"d","b",".","o","r","d","e","r","s",".","f","i","n","d","(","}"," ","{","\"","s","t","a","t","u","s","\"",":"," ","1">>,
    <<"d","b",".","o","r","d","e","r","s",".","f","i","n","d","(","{","\"","s","t","a","t","u","s","\"",":"," ","\"","{","\"",","," ","\"","t","a","g","s","\"",":"," ","{","}","}",")">>,
    <<"d","b",".","o","r","d","e","r","s",".","f","i","n","d","(","{","'","s","t","a","t","u","s","'",":"," ","'","{","'","}",")">>,
    <<"o","r","d","e","r","s",".","f","i","n","d","(","{","\"","s","t","a","t","u","s","\"",":"," ","\"","p","e","n","d","i","n","g","\"","}",")">>,
    <<"d","b",".","o","r","d","e","r","s",".","c","o","u","n","t","(","{","}",")">>,
    <<"H","e","r","e"," ","i","s"," ","t","h","e"," ","q","u","e","r","y",":"," ","d","b",".","c","u","s","t","o","m","e","r","s",".","f","i","n","d","(","{","\"","n","a","m","e","\"",":"," ","\"","A","n","n","\"","}",")"," ","f","o","r"," ","y","o","u">>,
    <<"d","b",".","o","r","d","e","r","s",".","a","g","g","r","e","g","a","t","e","(","[","{","\"","$","m","a","t","c","h","\"",":"," ","{","\"","s","t","a","t","u","s","\"",":"," ","\"","p","e","n","d","i","n","g","\"","}","}",","," ","{","\"","$","l","i","m","i","t","\"",":"," ","5","}","]",")">>,
    <<"d","b",".","o","r","d","e","r","s",".","a","g","g","r","e","g","a","t","e","(","[","{","\"","$","m","a","t","c","h","\"",":"," ","{","}","}",","," ","{","\"","$","l","i","m","i","t","\"",":"," ","1","1","}","]",")">>,
    <<"d","b",".","o","r","d","e","r","s",".","a","g","g","r","e","g","a","t","e","(","[","{","$","m","a","t","c","h",":"," ","{","s","t","a","t","u","s",":"," ","\"","x","\"","}","}",","," ","{","$","l","i","m","i","t",":"," ","5","}">>,
    <<"d","b",".","o","r","d","e","r","s",".","a","g","g","r","e","g","a","t","e","(","[","1","]",")">>,
    <<"d","b",".","o","r","d","e","r","s",".","a","g","g","r","e","g","a","t","e","(",")">>,
    <<" ","U","N","A","B","L","E","_","T","O","_","Q","U","E","R","Y"," ">>,
    <<"M","O","D","I","F","I","C","A","T","I","O","N","_","N","O","T","_","A","L","L","O","W","E","D",":"," ","C","a","n","n","o","t"," ","m","o","d","i","f","y"," ","d","a","t","a","b","a","s","e">>,
    <<"O","U","T","_","O","F","_","S","C","O","P","E",":"," ","T","h","i","s"," ","q","u","e","s","t","i","o","n"," ","i","s"," ","n","o","t"," ","r","e","l","a","t","e","d"," ","t","o"," ","t","h","e"," ","d","a","t","a","b","a","s","e">>,
    <<"E","R","R","O","R",":"," ","O","l","l","a","m","a"," ","A","P","I"," ","r","e","t","u","r","n","e","d"," ","5","0","0">>,
    <<"I"," ","a","m"," ","s","o","r","r","y",","," ","I"," ","c","a","n","n","o","t"," ","h","e","l","p"," ","w","i","t","h"," ","t","h","a","t",".">> }

\* What LocalLLMInterface.generate can return
ModelTexts == ValidCommandTexts \cup BareCommandTexts \cup OtherTexts

\* str.strip()
Strip(s) ==
  LET a == SkipWs(s, 1)
      b == IF a > Len(s) THEN 0
           ELSE CHOOSE j \in a..Len(s) :
                  s[j] \notin WhiteSpace /\ \A k \in (j + 1)..Len(s) : s[k] \in WhiteSpace
  IN SubSeq(s, a, b)


\* ------------------------------------------- MongoDBChatAgent.process_query

VARIABLES
  connected,      \* db_connector.db is not None (connect() succeeded)
  pc,             \* where process_query stands
  user_question,  \* its argument
  ranking,        \* what search_collections returned for the question
  query_code,     \* the model's answer, stripped
  recovered,      \* the command recovered from query_code
  calls,          \* the collaborators invoked during this call, in order
  lastExc,        \* the message of the exception the last store access raised
  selected,       \* how many documents the last store call selected (-1: none did)
  path,           \* the execution path that produced results
  results,        \* what was handed to the formatter (JNull: nothing yet)
  response,       \* the text returned
  raised,         \* an exception left process_query
  metadata,       \* DynamicQueryGenerator.metadata
  gpc,            \* where generate_mongo_query stands
  prompt,         \* its argument
  analysis,       \* what analyze_question returned
  generated,      \* the text generate_mongo_query returned
  engine_db,      \* the dict vector_search.embeddings_db refers to: its keys in order
  ranker_db,      \* the dict prompt_builder.search_engine.embeddings_db refers to
  shared,         \* the two are one dict object
  pickle_file,    \* embeddings.pkl: [exists, db]
  wpc,            \* where the thread calling generate_embeddings stands
  gen_schema,     \* the schema generate_embeddings is storing
  gen_i,          \* the index in gen_schema of the next collection to store
  latest,         \* the schema of the most recent generate_embeddings call
  before,         \* the ranker's dict as it was when that call began
  search_pc,      \* where the thread in search_collections stands
  iter_len,       \* the size of the dict when its items() iterator was made
  iter_pos,       \* how many items the iterator has yielded
  similarities,   \* the collections search_collections has scored so far
  whole           \* the complete stores that existed during this search

agentVars ==
  <<connected, pc, user_question, ranking, query_code, recovered, calls, lastExc,
    selected, path, results, response, raised>>

genVars == <<metadata, gpc, prompt, analysis, generated>>

embVars ==
  <<engine_db, ranker_db, shared, pickle_file, wpc, gen_schema, gen_i, latest, before,
    search_pc, iter_len, iter_pos, similarities, whole>>

vars == <<agentVars, genVars, embVars>>

ProhibitedWords ==
  {<<"d","r","o","p">>, <<"d","e","l","e","t","e">>, <<"u","p","d","a","t","e">>, <<"i","n","s","e","r","t">>, <<"m","o","d","i","f","y">>, <<"r","e","m","o","v","e">>, <<"t","r","u","n","c","a","t","e">>,
   <<"a","l","t","e","r">>}

\* The keyword test without the lower-casing of the question
IsProhibitedAsTyped(q) == \E word \in ProhibitedWords : Contains(q, word)

\* any(word in user_question.lower() for word in prohibited_words)
IsProhibitedQuestion(q) == \E word \in ProhibitedWords : Contains(lower(q), word)

ContainsAny(s, words) == \E w \in words : Contains(s, w)

\* The question asks for orders together with customer details
IsJoinQuestion(question_lower) ==
  /\ Contains(question_lower, <<"o","r","d","e","r">>)
  /\ ContainsAny(question_lower, {<<"c","u","s","t","o","m","e","r">>, <<"u","s","e","r">>, <<"c","l","i","e","n","t">>})
  /\ ContainsAny(question_lower, {<<"n","a","m","e">>, <<"e","m","a","i","l">>, <<"d","e","t","a","i","l">>, <<"i","n","f","o">>})

\* The status test taken in the order the statuses appear in the question's usual
\* reading, pending before completed
JoinMatchFilterPendingFirst(question_lower) ==
  IF Contains(question_lower, <<"p","e","n","d","i","n","g">>) THEN JObj(<<JPair(<<"s","t","a","t","u","s">>, JStr(<<"p","e","n","d","i","n","g">>))>>)
  ELSE IF Contains(question_lower, <<"c","o","m","p","l","e","t","e","d">>) THEN JObj(<<JPair(<<"s","t","a","t","u","s">>, JStr(<<"c","o","m","p","l","e","t","e","d">>))>>)
  ELSE IF Contains(question_lower, <<"c","a","n","c","e","l","l","e","d">>) THEN JObj(<<JPair(<<"s","t","a","t","u","s">>, JStr(<<"c","a","n","c","e","l","l","e","d">>))>>)
  ELSE EmptyObj

\* match_filter of the join template
JoinMatchFilter(question_lower) ==
  IF Contains(question_lower, <<"c","o","m","p","l","e","t","e","d">>) THEN JObj(<<JPair(<<"s","t","a","t","u","s">>, JStr(<<"c","o","m","p","l","e","t","e","d">>))>>)
  ELSE IF Contains(question_lower, <<"p","e","n","d","i","n","g">>) THEN JObj(<<JPair(<<"s","t","a","t","u","s">>, JStr(<<"p","e","n","d","i","n","g">>))>>)
  ELSE IF Contains(question_lower, <<"c","a","n","c","e","l","l","e","d">>) THEN JObj(<<JPair(<<"s","t","a","t","u","s">>, JStr(<<"c","a","n","c","e","l","l","e","d">>))>>)
  ELSE EmptyObj

\* The pipeline of the join template
JoinPipeline(question_lower) ==
  JArr(<<
    JObj(<<JPair(<<"$","m","a","t","c","h">>, JoinMatchFilter(question_lower))>>),
    JObj(<<JPair(<<"$","l","o","o","k","u","p">>, JObj(<<JPair(<<"f","r","o","m">>, JStr(<<"c","u","s","t","o","m","e","r","s">>)),
                                      JPair(<<"l","o","c","a","l","F","i","e","l","d">>, JStr(<<"c","u","s","t","o","m","e","r","I","d">>)),
                                      JPair(<<"f","o","r","e","i","g","n","F","i","e","l","d">>, JStr(<<"_","i","d">>)),
                                      JPair(<<"a","s">>, JStr(<<"c","u","s","t","o","m","e","r","_","i","n","f","o">>))>>))>>),
    JObj(<<JPair(<<"$","u","n","w","i","n","d">>, JObj(<<JPair(<<"p","a","t","h">>, JStr(<<"$","c","u","s","t","o","m","e","r","_","i","n","f","o">>)),
                                      JPair(<<"p","r","e","s","e","r","v","e","N","u","l","l","A","n","d","E","m","p","t","y","A","r","r","a","y","s">>, JTrue)>>))>>),
    JObj(<<JPair(<<"$","p","r","o","j","e","c","t">>, JObj(<<JPair(<<"_","i","d">>, JNum(0)),
                                       JPair(<<"s","t","a","t","u","s">>, JNum(1)),
                                       JPair(<<"a","m","o","u","n","t">>, JNum(1)),
                                       JPair(<<"q","u","a","n","t","i","t","y">>, JNum(1)),
                                       JPair(<<"c","u","s","t","o","m","e","r","_","n","a","m","e">>, JStr(<<"$","c","u","s","t","o","m","e","r","_","i","n","f","o",".","n","a","m","e">>)),
                                       JPair(<<"c","u","s","t","o","m","e","r","_","e","m","a","i","l">>, JStr(<<"$","c","u","s","t","o","m","e","r","_","i","n","f","o",".","e","m","a","i","l">>))>>))>>),
    JObj(<<JPair(<<"$","l","i","m","i","t">>, JNum(10))>>) >>)

\* The result list without the slice
Uncapped(docs) == docs

\* results[:10]
Cap(docs) == SubSeq(docs, 1, Min(ResultCap, Len(docs)))

\* What a dispatch branch leaves: exc an exception raised inside the try block,
\* returned a return from inside it, results/response what it computed
Outcome(exc, msg, returned, resp, res, cs, storeExc) ==
  [exc |-> exc, msg |-> msg, returned |-> returned, response |-> resp, results |-> res,
   calls |-> cs, storeExc |-> storeExc]

\* operation == 'find': results = self.db_connector.execute_query(...)
find_dispatch(db, cmd, out) ==
  LET r == execute_query(db, cmd.collection, cmd.argument, out)
  IN Outcome(r.exc, r.msg, FALSE, NoResponse, r.ret, r.calls,
             IF ~db THEN ExcNoDb
             ELSE IF r.calls # <<>> /\ out.raises THEN out.msg ELSE <<>>)

CountDescription(coll) == <<"T","o","t","a","l"," ","d","o","c","u","m","e","n","t","s"," ","i","n"," ">> \o coll \o <<" ","m","a","t","c","h","i","n","g"," ","q","u","e","r","y">>

\* countDocuments / count: count_documents inside its own try
count_dispatch(db, cmd, out) ==
  IF ~db THEN
    Outcome(FALSE, <<>>, TRUE, Response("count_error", ExcNoDb, 0), JNull, <<>>, ExcNoDb)
  ELSE IF out.raises THEN
    Outcome(FALSE, <<>>, TRUE, Response("count_error", out.msg, 0), JNull,
            <<Call("store", "count_documents", cmd.collection, cmd.argument)>>, out.msg)
  ELSE
    Outcome(FALSE, <<>>, FALSE, NoResponse,
            JArr(<<JObj(<<JPair(<<"c","o","u","n","t">>, JNum(out.n)),
                          JPair(<<"d","e","s","c","r","i","p","t","i","o","n">>, JStr(CountDescription(cmd.collection)))>>)>>),
            <<Call("store", "count_documents", cmd.collection, cmd.argument)>>, <<>>)

\* operation == 'aggregate': list(collection.aggregate(pipeline))[:10]
aggregate_dispatch(db, cmd, out) ==
  IF ~db THEN
    Outcome(TRUE, ExcNoDb, FALSE, NoResponse, JNull, <<>>, ExcNoDb)
  ELSE IF out.raises \/ ~ValidPipeline(cmd.argument) THEN
    Outcome(TRUE, ExcStore, FALSE, NoResponse, JNull,
            <<Call("store", "aggregate", cmd.collection, cmd.argument)>>, ExcStore)
  ELSE
    Outcome(FALSE, <<>>, FALSE, NoResponse,
            JArr(Cap(StoreAggregate(cmd.argument, out.n))),
            <<Call("store", "aggregate", cmd.collection, cmd.argument)>>, <<>>)

\* The store call of the recovered command
DispatchCommand(db, cmd, out) ==
  IF cmd.operation = <<"f","i","n","d">> THEN find_dispatch(db, cmd, out)
  ELSE IF cmd.operation \in FindOperations THEN count_dispatch(db, cmd, out)
  ELSE aggregate_dispatch(db, cmd, out)

\* The end of process_query without the outer handler: an exception of the try
\* block leaves process_query
FinishQueryUnhandled(d) ==
  IF d.exc THEN
    [response |-> NoResponse, results |-> JNull, raised |-> TRUE]
  ELSE IF d.returned THEN
    [response |-> d.response, results |-> JNull, raised |-> FALSE]
  ELSE
    [response |-> format_results(d.results), results |-> d.results, raised |-> FALSE]

\* The end of process_query after the try block: the outer except, a return from
\* inside the block, or the formatter: [response, results, raised]
FinishQuery(d) ==
  IF d.exc THEN
    [response |-> Response("execution_error", d.msg, 0), results |-> JNull, raised |-> FALSE]
  ELSE IF d.returned THEN
    [response |-> d.response, results |-> JNull, raised |-> FALSE]
  ELSE
    [response |-> format_results(d.results), results |-> d.results, raised |-> FALSE]

\* The template's aggregate on orders inside its try: [failed, results, calls, storeExc]
join_template(db, question_lower, out) ==
  IF ~db THEN
    [failed |-> TRUE, results |-> JNull, calls |-> <<>>, storeExc |-> ExcNoDb]
  ELSE IF out.raises THEN
    [failed |-> TRUE, results |-> JNull,
     calls |-> <<Call("store", "aggregate", <<"o","r","d","e","r","s">>, JoinPipeline(question_lower))>>,
     storeExc |-> out.msg]
  ELSE
    [failed |-> FALSE,
     results |-> JArr(StoreAggregate(JoinPipeline(question_lower), out.n)),
     calls |-> <<Call("store", "aggregate", <<"o","r","d","e","r","s">>, JoinPipeline(question_lower))>>,
     storeExc |-> <<>>]

\* process_query(user_question) is called: the prohibited-word check
SafetyGate ==
  /\ pc = "idle"
  /\ \E q \in Questions :
       /\ user_question' = q
       /\ IF IsProhibitedQuestion(q)
            THEN /\ response' = Response("modification_rejected", <<>>, 0)
                 /\ pc' = "done"
            ELSE /\ response' = response
                 /\ pc' = "template"
  /\ UNCHANGED <<connected, ranking, query_code, recovered, calls, lastExc, selected,
                 path, results, raised>>
  /\ UNCHANGED <<genVars, embVars>>

\* The join template: one fixed aggregate on orders, the model path if it raises
JoinTemplate ==
  /\ pc = "template"
  /\ IF IsJoinQuestion(lower(user_question))
       THEN \E out \in OutcomesFor(connected) :
              \E t \in {join_template(connected, lower(user_question), out)} :
                 /\ calls' = calls \o t.calls
                 /\ lastExc' = t.storeExc
                 /\ selected' = IF t.failed THEN -1 ELSE out.n
                 /\ IF t.failed
                      THEN /\ pc' = "prompt"
                           /\ UNCHANGED <<results, response, path>>
                      ELSE /\ pc' = "done"
                           /\ path' = "template"
                           /\ results' = t.results
                           /\ response' = format_results(t.results)
       ELSE /\ pc' = "prompt"
            /\ UNCHANGED <<calls, lastExc, selected, results, response, path>>
  /\ UNCHANGED <<connected, user_question, ranking, query_code, recovered, raised>>
  /\ UNCHANGED <<genVars, embVars>>

\* get_reliable_prompt and the out-of-scope test on the two prompts
BuildPrompt ==
  /\ pc = "prompt"
  /\ \E rk \in Rankings :
       \E p \in {get_reliable_prompt(connected, user_question, rk)} :
          /\ ranking' = rk
          /\ calls' = calls \o <<Call("ranker", "search_collections", <<>>, JNull)>> \o p.calls
          /\ IF Contains(p.system_prompt, OutOfScopeMarker)
                \/ Contains(p.user_prompt, OutOfScopeMarker)
               THEN /\ response' = Response("out_of_scope", <<>>, 0)
                    /\ pc' = "done"
               ELSE /\ response' = response
                    /\ pc' = "llm"
  /\ UNCHANGED <<connected, user_question, query_code, recovered, lastExc, selected,
                 path, results, raised>>
  /\ UNCHANGED <<genVars, embVars>>

\* self.llm.generate and the tests on its answer
Generate ==
  /\ pc = "llm"
  /\ \E text \in ModelTexts :
       \E code \in {Strip(text)} :
          /\ query_code' = code
          /\ calls' = Append(calls, Call("llm", "generate", <<>>, JNull))
          /\ IF Contains(code, <<"E","R","R","O","R",":">>)
               THEN response' = Response("llm_error", code, 0) /\ pc' = "done"
             ELSE IF Contains(code, <<"U","N","A","B","L","E","_","T","O","_","Q","U","E","R","Y">>)
               THEN response' = Response("unable_to_query", <<>>, 0) /\ pc' = "done"
             ELSE IF Contains(code, <<"M","O","D","I","F","I","C","A","T","I","O","N","_","N","O","T","_","A","L","L","O","W","E","D">>)
               THEN response' = Response("llm_modification", <<>>, 0) /\ pc' = "done"
             ELSE IF Contains(code, OutOfScopeMarker)
               THEN response' = Response("llm_out_of_scope", <<>>, 0) /\ pc' = "done"
             ELSE response' = response /\ pc' = "parse"
  /\ UNCHANGED <<connected, user_question, ranking, recovered, lastExc, selected, path,
                 results, raised>>
  /\ UNCHANGED <<genVars, embVars>>

\* The invocation match and the recovery of its argument
Recover ==
  /\ pc = "parse"
  /\ \E cmd \in {RecoverCommand(query_code)} :
        /\ recovered' = cmd
        /\ IF ~cmd.matched
             THEN /\ response' = Response("unparseable", query_code, 0)
                  /\ pc' = "done"
                  /\ raised' = raised
           ELSE IF cmd.exc
             THEN \E f \in {FinishQuery(Outcome(TRUE, ExcPop, FALSE, NoResponse, JNull, <<>>, <<>>))} :
                     /\ response' = f.response
                     /\ raised' = f.raised
                     /\ pc' = "done"
           ELSE /\ response' = response
                /\ pc' = "dispatch"
                /\ raised' = raised
  /\ UNCHANGED <<connected, user_question, ranking, query_code, calls, lastExc, selected,
                 path, results>>
  /\ UNCHANGED <<genVars, embVars>>

\* The store call of the recovered command and the formatting of its result
Dispatch ==
  /\ pc = "dispatch"
  /\ \E out \in OutcomesFor(connected) :
       \E d \in {DispatchCommand(connected, recovered, out)} :
       \E f \in {FinishQuery(d)} :
          /\ calls' = calls \o d.calls
          /\ lastExc' = d.storeExc
          /\ selected' = IF d.calls # <<>> /\ d.storeExc = <<>> THEN out.n ELSE -1
          /\ results' = f.results
          /\ response' = f.response
          /\ raised' = f.raised
  /\ path' = IF recovered.operation = <<"f","i","n","d">> THEN "find"
             ELSE IF recovered.operation \in FindOperations THEN "count"
             ELSE "aggregate"
  /\ pc' = "done"
  /\ UNCHANGED <<connected, user_question, ranking, query_code, recovered>>
  /\ UNCHANGED <<genVars, embVars>>

\* ------------------------------------------------- DynamicQueryGenerator
\* self.metadata is a dict in insertion order: a sequence of [name, fields], fields
\* a sequence of [name, type]. None (no field found) is the empty text.

\* self.collections = list(self.metadata.keys())
CollectionNames(md) == [i \in 1..Len(md) |-> md[i].name]

\* x in list
InSeq(x, seq) == \E i \in 1..Len(seq) : seq[i] = x

\* self.metadata[collection].get('fields', {}) once collection is known to be a key
FieldsOf(md, collection) ==
  md[CHOOSE i \in 1..Len(md) : md[i].name = collection].fields

\* A scan that runs and appends whether or not the list is empty
AlwaysAppend(list, other) == list \o other

\* `if not relevant_collections:` - the replacement when the list is still empty
OrIfEmpty(list, other) == IF list = <<>> THEN other ELSE list

\* The vocabulary rules of analyze_question: product/item, sales/revenue, customer
KeywordCollections(md, question_lower) ==
  IF ContainsAny(question_lower, {<<"p","r","o","d","u","c","t">>, <<"p","r","o","d","u","c","t","s">>, <<"i","t","e","m">>, <<"i","t","e","m","s">>})
    THEN IF InSeq(<<"o","r","d","e","r","s">>, CollectionNames(md)) THEN <<<<"o","r","d","e","r","s">>>> ELSE <<>>
  ELSE IF ContainsAny(question_lower, {<<"s","a","l","e","s">>, <<"r","e","v","e","n","u","e">>, <<"t","o","t","a","l"," ","s","a","l","e","s">>, <<"i","n","c","o","m","e">>})
    THEN IF InSeq(<<"o","r","d","e","r","s">>, CollectionNames(md)) THEN <<<<"o","r","d","e","r","s">>>> ELSE <<>>
  ELSE IF ContainsAny(question_lower, {<<"c","u","s","t","o","m","e","r">>, <<"c","u","s","t","o","m","e","r","s">>, <<"c","l","i","e","n","t">>, <<"c","l","i","e","n","t","s">>})
    THEN IF InSeq(<<"c","u","s","t","o","m","e","r","s">>, CollectionNames(md)) THEN <<<<"c","u","s","t","o","m","e","r","s">>>> ELSE <<>>
  ELSE <<>>

\* Direct collection mentions
MentionedCollections(md, question_lower) ==
  SelectSeq(CollectionNames(md), LAMBDA c : Contains(question_lower, lower(c)))

\* The collections one of whose field names is in the question
FieldCollections(md, question_lower) ==
  CollectionNames(SelectSeq(md, LAMBDA c :
    \E i \in 1..Len(c.fields) : Contains(question_lower, lower(c.fields[i].name))))

\* The default when nothing matched
DefaultCollections(md, question_lower) ==
  IF ContainsAny(question_lower, {<<"s","a","l","e","s">>, <<"r","e","v","e","n","u","e">>, <<"t","o","t","a","l">>, <<"a","m","o","u","n","t">>,
                                  <<"p","r","o","d","u","c","t">>, <<"s","o","l","d">>, <<"l","e","a","s","t">>, <<"m","o","s","t">>})
    THEN <<<<"o","r","d","e","r","s">>>>
  ELSE IF md # <<>> THEN <<md[1].name>>
  ELSE <<<<"o","r","d","e","r","s">>>>

\* The ladder with the count rule tested first
IntentCountFirst(question) ==
  IF ContainsAny(question, {<<"c","o","u","n","t">>, <<"h","o","w"," ","m","a","n","y">>, <<"n","u","m","b","e","r"," ","o","f">>}) THEN <<"c","o","u","n","t">>
  ELSE IF ContainsAny(question, {<<"l","e","a","s","t">>, <<"w","o","r","s","t">>, <<"l","o","w","e","s","t">>, <<"b","o","t","t","o","m">>}) THEN <<"m","i","n","_","a","n","a","l","y","s","i","s">>
  ELSE IF ContainsAny(question, {<<"m","o","s","t">>, <<"b","e","s","t">>, <<"h","i","g","h","e","s","t">>, <<"t","o","p">>}) THEN <<"m","a","x","_","a","n","a","l","y","s","i","s">>
  ELSE IF ContainsAny(question, {<<"t","o","t","a","l">>, <<"s","u","m">>, <<"s","a","l","e","s">>, <<"r","e","v","e","n","u","e">>}) THEN <<"a","g","g","r","e","g","a","t","e","_","s","u","m">>
  ELSE IF ContainsAny(question, {<<"a","v","e","r","a","g","e">>, <<"a","v","g">>, <<"m","e","a","n">>}) THEN <<"a","v","e","r","a","g","e">>
  ELSE <<"l","i","s","t">>

_determine_intent(question) ==
  IF ContainsAny(question, {<<"l","e","a","s","t">>, <<"w","o","r","s","t">>, <<"l","o","w","e","s","t">>, <<"b","o","t","t","o","m">>}) THEN <<"m","i","n","_","a","n","a","l","y","s","i","s">>
  ELSE IF ContainsAny(question, {<<"m","o","s","t">>, <<"b","e","s","t">>, <<"h","i","g","h","e","s","t">>, <<"t","o","p">>}) THEN <<"m","a","x","_","a","n","a","l","y","s","i","s">>
  ELSE IF ContainsAny(question, {<<"t","o","t","a","l"," ","s","a","l","e","s">>, <<"t","o","t","a","l"," ","r","e","v","e","n","u","e">>, <<"s","a","l","e","s"," ","t","o","t","a","l">>})
    THEN <<"a","g","g","r","e","g","a","t","e","_","s","u","m">>
  ELSE IF ContainsAny(question, {<<"t","o","t","a","l">>, <<"s","u","m">>, <<"s","a","l","e","s">>, <<"r","e","v","e","n","u","e">>}) THEN <<"a","g","g","r","e","g","a","t","e","_","s","u","m">>
  ELSE IF ContainsAny(question, {<<"c","o","u","n","t">>, <<"h","o","w"," ","m","a","n","y">>, <<"n","u","m","b","e","r"," ","o","f">>}) THEN <<"c","o","u","n","t">>
  ELSE IF ContainsAny(question, {<<"a","v","e","r","a","g","e">>, <<"a","v","g">>, <<"m","e","a","n">>}) THEN <<"a","v","e","r","a","g","e">>
  ELSE IF ContainsAny(question, {<<"s","h","o","w">>, <<"l","i","s","t">>, <<"d","i","s","p","l","a","y">>, <<"g","e","t">>}) THEN <<"l","i","s","t">>
  ELSE IF ContainsAny(question, {<<"m","a","x">>, <<"m","a","x","i","m","u","m">>, <<"h","i","g","h","e","s","t">>}) THEN <<"m","a","x">>
  ELSE IF ContainsAny(question, {<<"m","i","n">>, <<"m","i","n","i","m","u","m">>, <<"l","o","w","e","s","t">>}) THEN <<"m","i","n">>
  ELSE <<"l","i","s","t">>

\* re.search(r'20\d{2}', question) matched at question[i]
YearAt(question, i) ==
  /\ StartsAt(question, i, <<"2","0">>)
  /\ i + 3 <= Len(question)
  /\ question[i + 2] \in Digits
  /\ question[i + 3] \in Digits

\* filters: year and status, the empty text for an absent key
_extract_filters(question) ==
  [year |-> IF \E i \in 1..Len(question) : YearAt(question, i)
              THEN SubSeq(question,
                          CHOOSE i \in 1..Len(question) :
                            YearAt(question, i) /\ \A k \in 1..(i - 1) : ~YearAt(question, k),
                          3 + CHOOSE i \in 1..Len(question) :
                            YearAt(question, i) /\ \A k \in 1..(i - 1) : ~YearAt(question, k))
              ELSE <<>>,
   status |-> IF Contains(lower(question), <<"c","o","m","p","l","e","t","e","d">>) THEN <<"c","o","m","p","l","e","t","e","d">>
              ELSE IF Contains(lower(question), <<"p","e","n","d","i","n","g">>) THEN <<"p","e","n","d","i","n","g">>
              ELSE IF Contains(lower(question), <<"c","a","n","c","e","l","l","e","d">>) THEN <<"c","a","n","c","e","l","l","e","d">>
              ELSE <<>>]

analyze_question(md, question) ==
  [collections |->
     OrIfEmpty(OrIfEmpty(KeywordCollections(md, lower(question))
                           \o MentionedCollections(md, lower(question)),
                         FieldCollections(md, lower(question))),
               DefaultCollections(md, lower(question))),
   intent |-> _determine_intent(lower(question)),
   filters |-> _extract_filters(question)]

NoAnalysis ==
  [collections |-> <<>>, intent |-> <<>>, filters |-> [year |-> <<>>, status |-> <<>>]]

AmountCandidates ==
  <<<<"a","m","o","u","n","t">>, <<"t","o","t","a","l">>, <<"p","r","i","c","e">>, <<"c","o","s","t">>, <<"v","a","l","u","e">>, <<"r","e","v","e","n","u","e">>, <<"s","a","l","e","s">>>>

\* The first field, in field order, whose lower-cased name contains the candidate
FirstFieldWith(fields, candidate) ==
  fields[CHOOSE j \in 1..Len(fields) :
           /\ Contains(lower(fields[j].name), candidate)
           /\ \A k \in 1..(j - 1) : ~Contains(lower(fields[k].name), candidate)].name

\* The fields searched for the candidates in candidate order
AmountFieldIn(fields) ==
  IF \E c \in 1..Len(AmountCandidates) :
       \E j \in 1..Len(fields) : Contains(lower(fields[j].name), AmountCandidates[c])
    THEN FirstFieldWith(fields,
           AmountCandidates[CHOOSE c \in 1..Len(AmountCandidates) :
             /\ \E j \in 1..Len(fields) : Contains(lower(fields[j].name), AmountCandidates[c])
             /\ \A b \in 1..(c - 1) :
                  \A j \in 1..Len(fields) : ~Contains(lower(fields[j].name), AmountCandidates[b])])
    ELSE <<>>

_find_amount_field(md, collection) ==
  IF ~InSeq(collection, CollectionNames(md)) THEN <<>>
  ELSE AmountFieldIn(FieldsOf(md, collection))

\* The names of the fields that are dates by type or by name
DateFieldsIn(fields) ==
  LET dated == SelectSeq(fields, LAMBDA f :
                 \/ f.type = <<"d","a","t","e">>
                 \/ Contains(lower(f.name), <<"d","a","t","e">>)
                 \/ Contains(lower(f.name), <<"t","i","m","e">>))
  IN [i \in 1..Len(dated) |-> dated[i].name]

_find_date_fields(md, collection) ==
  IF ~InSeq(collection, CollectionNames(md)) THEN <<>>
  ELSE DateFieldsIn(FieldsOf(md, collection))

_has_field(md, collection, field_name) ==
  /\ InSeq(collection, CollectionNames(md))
  /\ \E i \in 1..Len(FieldsOf(md, collection)) : FieldsOf(md, collection)[i].name = field_name

\* DateTimeEncoder.default on datetime(year, 1, 1)
DateValue(year) ==
  JObj(<<JPair(<<"$","d","a","t","e">>, JStr(IntRepr(year) \o <<"-","0","1","-","0","1","T","0","0",":","0","0",":","0","0">> \o <<"Z">>))>>)

\* The date entry put on the last of the date fields
DateMatchLastField(date_fields, filters) ==
  IF filters.year # <<>> /\ date_fields # <<>>
    THEN <<JPair(date_fields[Len(date_fields)],
                 JObj(<<JPair(<<"$","g","t","e">>, DateValue(NatOfDigits(filters.year))),
                        JPair(<<"$","l","t">>, DateValue(NatOfDigits(filters.year) + 1))>>))>>
    ELSE <<>>

\* The date entry of match_stage
DateMatch(date_fields, filters) ==
  IF filters.year # <<>> /\ date_fields # <<>>
    THEN <<JPair(date_fields[1],
                 JObj(<<JPair(<<"$","g","t","e">>, DateValue(NatOfDigits(filters.year))),
                        JPair(<<"$","l","t">>, DateValue(NatOfDigits(filters.year) + 1))>>))>>
    ELSE <<>>

\* match_stage after the status rule
StatusMatch(pairs, has_status, intent, filters) ==
  IF filters.status # <<>> /\ has_status
    THEN PutKey(pairs, <<"s","t","a","t","u","s">>, JStr(filters.status))
  ELSE IF intent = <<"a","g","g","r","e","g","a","t","e","_","s","u","m">> /\ has_status
    THEN PutKey(pairs, <<"s","t","a","t","u","s">>, JStr(<<"c","o","m","p","l","e","t","e","d">>))
  ELSE pairs

\* if match_stage: pipeline.append({"$match": match_stage})
MatchStages(match_stage) ==
  IF match_stage # <<>> THEN <<JObj(<<JPair(<<"$","m","a","t","c","h">>, JObj(match_stage))>>)>> ELSE <<>>

CountStage == JObj(<<JPair(<<"$","c","o","u","n","t">>, JStr(<<"t","o","t","a","l">>))>>)

\* {"$group": {"_id": None, name: {op: "$" + amount_field}}}
GroupStage(name, op, amount_field) ==
  JObj(<<JPair(<<"$","g","r","o","u","p">>,
               JObj(<<JPair(<<"_","i","d">>, JNull),
                      JPair(name, JObj(<<JPair(op, JStr(<<"$">> \o amount_field))>>))>>))>>)

\* if amount_field: pipeline.append(group) [else: pipeline.append(otherwise)]
GroupIfAmount(name, op, amount_field, otherwise) ==
  IF amount_field # <<>> THEN <<GroupStage(name, op, amount_field)>> ELSE otherwise

\* The product analysis without its join: the sort and the limit alone
ProductAnalysisNoJoin(direction) ==
  << JObj(<<JPair(<<"$","s","o","r","t">>, JObj(<<JPair(<<"t","o","t","a","l","S","a","l","e","s">>, JNum(direction))>>))>>),
     JObj(<<JPair(<<"$","l","i","m","i","t">>, JNum(10))>>) >>

\* The six stages of the product analysis, sorted by totalSales in `direction`
ProductAnalysis(direction) ==
  << JObj(<<JPair(<<"$","g","r","o","u","p">>,
                  JObj(<<JPair(<<"_","i","d">>, JStr(<<"$","p","r","o","d","u","c","t","I","d">>)),
                         JPair(<<"t","o","t","a","l","S","a","l","e","s">>, JObj(<<JPair(<<"$","s","u","m">>, JStr(<<"$","a","m","o","u","n","t">>))>>)),
                         JPair(<<"q","u","a","n","t","i","t","y","S","o","l","d">>, JObj(<<JPair(<<"$","s","u","m">>, JStr(<<"$","q","u","a","n","t","i","t","y">>))>>))>>))>>),
     JObj(<<JPair(<<"$","l","o","o","k","u","p">>,
                  JObj(<<JPair(<<"f","r","o","m">>, JStr(<<"p","r","o","d","u","c","t","s">>)),
                         JPair(<<"l","o","c","a","l","F","i","e","l","d">>, JStr(<<"_","i","d">>)),
                         JPair(<<"f","o","r","e","i","g","n","F","i","e","l","d">>, JStr(<<"_","i","d">>)),
                         JPair(<<"a","s">>, JStr(<<"p","r","o","d","u","c","t">>))>>))>>),
     JObj(<<JPair(<<"$","u","n","w","i","n","d">>, JStr(<<"$","p","r","o","d","u","c","t">>))>>),
     JObj(<<JPair(<<"$","p","r","o","j","e","c","t">>,
                  JObj(<<JPair(<<"p","r","o","d","u","c","t","N","a","m","e">>, JStr(<<"$","p","r","o","d","u","c","t",".","n","a","m","e">>)),
                         JPair(<<"t","o","t","a","l","S","a","l","e","s">>, JNum(1)),
                         JPair(<<"q","u","a","n","t","i","t","y","S","o","l","d">>, JNum(1))>>))>>),
     JObj(<<JPair(<<"$","s","o","r","t">>, JObj(<<JPair(<<"t","o","t","a","l","S","a","l","e","s">>, JNum(direction))>>))>>),
     JObj(<<JPair(<<"$","l","i","m","i","t">>, JNum(10))>>) >>

\* The list intent without its sort stage
ListStagesUnsorted(date_fields) == << JObj(<<JPair(<<"$","l","i","m","i","t">>, JNum(10))>>) >>

\* The stages of the list intent (and of every intent without a branch of its own)
ListStages(date_fields) ==
  << JObj(<<JPair(<<"$","s","o","r","t">>,
                  JObj(<<JPair(IF date_fields # <<>> THEN date_fields[1] ELSE <<"_","i","d">>,
                               JNum(-1))>>))>>),
     JObj(<<JPair(<<"$","l","i","m","i","t">>, JNum(10))>>) >>

\* The stages generate_query appends for the intent
IntentStages(md, collection, intent, question) ==
  IF intent = <<"c","o","u","n","t">> THEN <<CountStage>>
  ELSE IF intent = <<"a","g","g","r","e","g","a","t","e","_","s","u","m">>
    THEN GroupIfAmount(<<"t","o","t","a","l">>, <<"$","s","u","m">>, _find_amount_field(md, collection), <<CountStage>>)
  ELSE IF intent = <<"a","v","e","r","a","g","e">>
    THEN GroupIfAmount(<<"a","v","e","r","a","g","e">>, <<"$","a","v","g">>, _find_amount_field(md, collection), <<>>)
  ELSE IF intent = <<"m","i","n","_","a","n","a","l","y","s","i","s">>
    THEN IF ContainsAny(lower(question), {<<"p","r","o","d","u","c","t">>, <<"i","t","e","m">>})
           THEN ProductAnalysis(1)
           ELSE GroupIfAmount(<<"m","i","n">>, <<"$","m","i","n">>, _find_amount_field(md, collection), <<>>)
  ELSE IF intent = <<"m","a","x","_","a","n","a","l","y","s","i","s">>
    THEN IF ContainsAny(lower(question), {<<"p","r","o","d","u","c","t">>, <<"i","t","e","m">>})
           THEN ProductAnalysis(-1)
           ELSE GroupIfAmount(<<"m","a","x">>, <<"$","m","a","x">>, _find_amount_field(md, collection), <<>>)
  ELSE ListStages(_find_date_fields(md, collection))

\* The pipeline generate_query builds from the analysis of the question
BuildPipeline(md, question, collection, intent, filters) ==
  JArr(MatchStages(StatusMatch(DateMatch(_find_date_fields(md, collection), filters),
                               _has_field(md, collection, <<"s","t","a","t","u","s">>), intent, filters))
         \o IntentStages(md, collection, intent, question))

\* generate_query(question), `found` being analyze_question(question): the text
\* json.dumps(pipeline, cls=DateTimeEncoder) and the collection
generate_query(md, question, found) ==
  [query |-> RenderJson(BuildPipeline(md, question, found.collections[1], found.intent,
                                      found.filters)),
   collection |-> found.collections[1]]

\* The text generate_mongo_query returns when generate_query raised
FallbackQuery == RenderJson(JArr(<<JObj(<<JPair(<<"$","l","i","m","i","t">>, JNum(10))>>)>>))

\* What extract_metadata() can return
GenMetadatas ==
  { <<>>,
    <<[name |-> <<"u","s","e","r","s">>,
       fields |-> <<[name |-> <<"n","a","m","e">>, type |-> <<"s","t","r","i","n","g">>],
                    [name |-> <<"a","g","e">>, type |-> <<"i","n","t">>]>>]>>,
    <<[name |-> <<"o","r","d","e","r","s">>,
       fields |-> <<[name |-> <<"s","t","a","t","u","s">>, type |-> <<"s","t","r","i","n","g">>],
                    [name |-> <<"q","u","a","n","t","i","t","y">>, type |-> <<"i","n","t">>]>>]>>,
    <<[name |-> <<"o","r","d","e","r","s">>,
       fields |-> <<[name |-> <<"o","r","d","e","r","T","o","t","a","l">>, type |-> <<"d","o","u","b","l","e">>],
                    [name |-> <<"a","m","o","u","n","t">>, type |-> <<"d","o","u","b","l","e">>],
                    [name |-> <<"s","t","a","t","u","s">>, type |-> <<"s","t","r","i","n","g">>],
                    [name |-> <<"p","l","a","c","e","d">>, type |-> <<"d","a","t","e">>]>>],
      [name |-> <<"c","u","s","t","o","m","e","r","s">>,
       fields |-> <<[name |-> <<"n","a","m","e">>, type |-> <<"s","t","r","i","n","g">>],
                    [name |-> <<"s","i","g","n","u","p","D","a","t","e">>, type |-> <<"s","t","r","i","n","g">>]>>]>>,
    <<[name |-> <<"o","r","d","e","r","s">>,
       fields |-> <<[name |-> <<"t","a","x","A","m","o","u","n","t">>, type |-> <<"d","o","u","b","l","e">>],
                    [name |-> <<"s","t","a","t","u","s">>, type |-> <<"s","t","r","i","n","g">>],
                    [name |-> <<"a","m","o","u","n","t">>, type |-> <<"d","o","u","b","l","e">>],
                    [name |-> <<"c","r","e","a","t","e","d","A","t">>, type |-> <<"d","a","t","e">>],
                    [name |-> <<"s","h","i","p","p","e","d","D","a","t","e">>, type |-> <<"s","t","r","i","n","g">>]>>]>>,
    <<[name |-> <<"p","r","o","d","u","c","t","s">>,
       fields |-> <<[name |-> <<"n","a","m","e">>, type |-> <<"s","t","r","i","n","g">>],
                    [name |-> <<"u","n","i","t","P","r","i","c","e">>, type |-> <<"d","o","u","b","l","e">>],
                    [name |-> <<"u","p","d","a","t","e","T","i","m","e">>, type |-> <<"s","t","r","i","n","g">>]>>]>> }

\* The prompts generate_mongo_query is called with; JNull is a prompt that is not a str
GenQuestions ==
  { JStr(q) : q \in
      { <<"a","v","e","r","a","g","e"," ","a","g","e">>, <<"l","o","w","e","s","t"," ","a","g","e">>, <<"w","h","i","c","h"," ","p","r","o","d","u","c","t"," ","s","o","l","d"," ","l","e","a","s","t">>,
        <<"m","o","s","t"," ","s","o","l","d"," ","i","t","e","m">>, <<"T","o","t","a","l"," ","S","a","l","e","s"," ","i","n"," ","2","0","2","3">>, <<"h","o","w"," ","m","a","n","y"," ","u","s","e","r","s">>,
        <<"s","h","o","w"," ","c","o","m","p","l","e","t","e","d"," ","o","r","d","e","r","s">>, <<"l","i","s","t"," ","c","u","s","t","o","m","e","r","s"," ","f","r","o","m"," ","2","0","2","4">>, <<"h","i","g","h","e","s","t"," ","p","r","i","c","e">>,
        <<"m","e","a","n"," ","a","m","o","u","n","t"," ","f","o","r"," ","p","e","n","d","i","n","g"," ","o","r","d","e","r","s">>, <<"c","o","u","n","t"," ","c","a","n","c","e","l","l","e","d"," ","o","r","d","e","r","s"," ","i","n"," ","2","0","2","4">>,
        <<"t","o","p"," ","o","r","d","e","r","s">>, <<"w","h","a","t"," ","i","s"," ","t","h","e"," ","e","m","a","i","l">>, <<"m","a","x","i","m","u","m"," ","v","a","l","u","e">>, <<"t","o","t","a","l"," ","s","a","l","e","s">>,
        <<"s","a","l","e","s"," ","o","f"," ","2","0","2","1"," ","a","n","d"," ","2","0","2","5">>, <<"w","o","r","s","t"," ","i","t","e","m","s"," ","a","m","o","n","g"," ","c","o","m","p","l","e","t","e","d"," ","o","r","d","e","r","s">>, <<"r","e","v","e","n","u","e"," ","b","y"," ","n","a","m","e">>, <<"l","e","a","s","t"," ","a","n","d"," ","m","o","s","t"," ","e","x","p","e","n","s","i","v","e">>,
        <<"H","o","w"," ","m","a","n","y"," ","i","n"," ","t","o","t","a","l">>, <<"c","u","s","t","o","m","e","r","s"," ","i","n"," ","2","0","2","4">>, <<>> } }
    \cup {JNull}

\* generate_mongo_query(prompt) is called: analyze_question, or the handler of
\* generate_mongo_query when the prompt is not a str (question.lower() raises)
AnalyzeQuestion ==
  /\ gpc = "idle"
  /\ \E q \in GenQuestions :
       /\ prompt' = q
       /\ IF q.t # "str"
            THEN /\ generated' = FallbackQuery
                 /\ gpc' = "returned"
                 /\ analysis' = analysis
            ELSE /\ analysis' = analyze_question(metadata, q.s)
                 /\ gpc' = "analyzed"
                 /\ generated' = generated
  /\ UNCHANGED <<metadata, agentVars, embVars>>

\* The rest of generate_query: the pipeline for the analysis, dumped as JSON
GenerateQuery ==
  /\ gpc = "analyzed"
  /\ generated' = generate_query(metadata, prompt.s, analysis).query
  /\ gpc' = "returned"
  /\ UNCHANGED <<metadata, prompt, analysis, agentVars, embVars>>

\* ------------------------------------------------------ VectorSearchEngine
\* An embeddings_db dict is the sequence of its keys, the collection names, in
\* insertion order. One thread loads, generates and saves; another one searches.

\* What extract_schema() can return
EmbSchemas ==
  { <<>>, <<<<"o","r","d","e","r","s">>>>, <<<<"o","r","d","e","r","s">>, <<"c","u","s","t","o","m","e","r","s">>>>, <<<<"c","u","s","t","o","m","e","r","s">>, <<"p","r","o","d","u","c","t","s">>>>,
    <<<<"p","r","o","d","u","c","t","s">>>> }

\* self.embeddings_db[collection_name] = {...}: a new key goes last, a known one
\* keeps its place
PutName(db, collection_name) ==
  IF InSeq(collection_name, db) THEN db ELSE Append(db, collection_name)

\* The keys of a dict
KeysOf(db) == {db[i] : i \in 1..Len(db)}

\* load_embeddings: pickle.load gives a new dict, which only vector_search refers to
LoadEmbeddings ==
  /\ wpc = "idle"
  /\ IF pickle_file.exists
       THEN /\ engine_db' = pickle_file.db
            /\ shared' = FALSE
       ELSE UNCHANGED <<engine_db, shared>>
  /\ UNCHANGED <<ranker_db, pickle_file, wpc, gen_schema, gen_i, latest, before,
                 search_pc, iter_len, iter_pos, similarities, whole>>
  /\ UNCHANGED <<agentVars, genVars>>

\* generate_embeddings(schema) is called: the for loop is entered
GenerateEmbeddings ==
  /\ wpc = "idle"
  /\ \E schema \in EmbSchemas :
       /\ gen_schema' = schema
       /\ latest' = schema
       /\ wpc' = IF schema = <<>> THEN "idle" ELSE "storing"
       /\ whole' = IF schema = <<>> /\ search_pc = "iterating"
                     THEN whole \cup {KeysOf(ranker_db)} ELSE whole
  /\ gen_i' = 1
  /\ before' = ranker_db
  /\ UNCHANGED <<engine_db, ranker_db, shared, pickle_file, search_pc, iter_len,
                 iter_pos, similarities>>
  /\ UNCHANGED <<agentVars, genVars>>

\* One pass of the loop: the entry of one collection is stored in the dict
StoreEmbedding ==
  /\ wpc = "storing"
  /\ \E db \in {PutName(engine_db, gen_schema[gen_i])} :
       /\ engine_db' = db
       /\ ranker_db' = IF shared THEN db ELSE ranker_db
       /\ whole' = IF gen_i = Len(gen_schema) /\ search_pc = "iterating"
                     THEN whole \cup {KeysOf(IF shared THEN db ELSE ranker_db)}
                     ELSE whole
  /\ gen_i' = gen_i + 1
  /\ wpc' = IF gen_i = Len(gen_schema) THEN "idle" ELSE "storing"
  /\ UNCHANGED <<shared, pickle_file, gen_schema, latest, before, search_pc, iter_len,
                 iter_pos, similarities>>
  /\ UNCHANGED <<agentVars, genVars>>

\* save_embeddings
SaveEmbeddings ==
  /\ wpc = "idle"
  /\ pickle_file' = [exists |-> TRUE, db |-> engine_db]
  /\ UNCHANGED <<engine_db, ranker_db, shared, wpc, gen_schema, gen_i, latest, before,
                 search_pc, iter_len, iter_pos, similarities, whole>>
  /\ UNCHANGED <<agentVars, genVars>>

\* search_collections is called: similarities = {} and the iterator over
\* self.embeddings_db.items() is made
SearchCollections ==
  /\ search_pc \in {"idle", "returned", "raised"}
  /\ search_pc' = "iterating"
  /\ iter_len' = Len(ranker_db)
  /\ iter_pos' = 0
  /\ similarities' = <<>>
  /\ whole' = {KeysOf(IF wpc = "idle" THEN ranker_db ELSE before)}
  /\ UNCHANGED <<engine_db, ranker_db, shared, pickle_file, wpc, gen_schema, gen_i,
                 latest, before>>
  /\ UNCHANGED <<agentVars, genVars>>

\* The iterator's next item: RuntimeError when the dict has changed size since the
\* iterator was made, the end of the loop (and the return) when it has yielded
\* every item, else the similarity of one more collection
SearchNext ==
  /\ search_pc = "iterating"
  /\ IF Len(ranker_db) # iter_len
       THEN /\ search_pc' = "raised"
            /\ UNCHANGED <<iter_pos, similarities>>
     ELSE IF iter_pos = iter_len
       THEN /\ search_pc' = "returned"
            /\ UNCHANGED <<iter_pos, similarities>>
     ELSE /\ similarities' = Append(similarities, ranker_db[iter_pos + 1])
          /\ iter_pos' = iter_pos + 1
          /\ search_pc' = search_pc
  /\ UNCHANGED <<engine_db, ranker_db, shared, pickle_file, wpc, gen_schema, gen_i,
                 latest, before, iter_len, whole>>
  /\ UNCHANGED <<agentVars, genVars>>

\* The engines once MongoDBChatAgent.__init__ has run with `schema` in the store:
\* embeddings.pkl was loaded, or generated from the schema and saved, and
\* PromptBuilder's engine was given the same dict
EnginesBuilt(schema) ==
  /\ engine_db = schema
  /\ ranker_db = schema
  /\ shared = TRUE
  /\ pickle_file = [exists |-> TRUE, db |-> schema]
  /\ wpc = "idle"
  /\ gen_schema = <<>>
  /\ gen_i = 1
  /\ latest = schema
  /\ before = schema
  /\ search_pc = "idle"
  /\ iter_len = 0
  /\ iter_pos = 0
  /\ similarities = <<>>
  /\ whole = {}

\* process_query before a call
AgentIdle ==
  /\ pc = "idle"
  /\ user_question = <<>>
  /\ ranking = <<>>
  /\ query_code = <<>>
  /\ recovered = NoCommand
  /\ calls = <<>>
  /\ lastExc = <<>>
  /\ selected = -1
  /\ path = "none"
  /\ results = JNull
  /\ response = NoResponse
  /\ raised = FALSE

\* The query generator before a call
GeneratorIdle ==
  /\ gpc = "idle"
  /\ prompt = JNull
  /\ analysis = NoAnalysis
  /\ generated = <<>>

\* The agent after construction: connect() has succeeded or failed
Init ==
  /\ connected \in BOOLEAN
  /\ AgentIdle
  /\ metadata = <<>>
  /\ GeneratorIdle
  /\ EnginesBuilt(<<>>)

Next ==
  \/ SafetyGate
  \/ JoinTemplate
  \/ BuildPrompt
  \/ Generate
  \/ Recover
  \/ Dispatch

Spec == Init /\ [][Next]_vars

\* The query generator after construction: self.metadata = extract_metadata()
InitGen ==
  /\ connected = FALSE
  /\ AgentIdle
  /\ metadata \in GenMetadatas
  /\ GeneratorIdle
  /\ EnginesBuilt(<<>>)

NextGen ==
  \/ AnalyzeQuestion
  \/ GenerateQuery

SpecGen == InitGen /\ [][NextGen]_vars

\* The embedding store after construction, over any schema of the store
InitEmb ==
  /\ connected = TRUE
  /\ AgentIdle
  /\ metadata = <<>>
  /\ GeneratorIdle
  /\ \E schema \in EmbSchemas : EnginesBuilt(schema)

NextEmb ==
  \/ LoadEmbeddings
  \/ GenerateEmbeddings
  \/ StoreEmbedding
  \/ SaveEmbeddings
  \/ SearchCollections
  \/ SearchNext

SpecEmb == InitEmb /\ [][NextEmb]_vars

\* ------------------------------------------------------------------ claims

\* C1: execute_query rejects every argument whose text contains, in any letter case,
\* one of $set, $unset, deleteOne, deleteMany, updateOne, updateMany or drop: with a
\* connection, the find path ends with the 'Data modification queries are not
\* allowed' descriptor and no find call reaches the store.
C1_ExecuteRejectsListedOperators ==
  (/\ pc = "done" /\ path = "find" /\ connected
   /\ \E op \in {<<"$","s","e","t">>, <<"$","u","n","s","e","t">>, <<"d","e","l","e","t","e","O","n","e">>, <<"d","e","l","e","t","e","M","a","n","y">>, <<"u","p","d","a","t","e","O","n","e">>,
                   <<"u","p","d","a","t","e","M","a","n","y">>, <<"d","r","o","p">>} :
        Contains(lower(PyRepr(recovered.argument)), lower(op)))
    => /\ results = ModificationError
       /\ \A i \in 1..Len(calls) : ~(calls[i].target = "store" /\ calls[i].op = "find")

\* C2: the prohibited-operator check guards every dispatch mode: no find, count or
\* aggregate call reaches the store with an argument the check of execute_query
\* rejects.
C2_CheckGuardsEveryDispatch ==
  \A i \in 1..Len(calls) :
    (calls[i].target = "store" /\ calls[i].op \in {"find", "count_documents", "aggregate"})
      => ~IsModificationQuery(calls[i].arg)

\* C3: a question whose lower-cased text contains one of the eight keywords is
\* answered with the modification-not-allowed message, and the ranker, the model
\* and the store are never invoked for it.
C3_KeywordQuestionRejectedFirst ==
  (/\ pc # "idle"
   /\ \E w \in {<<"d","r","o","p">>, <<"d","e","l","e","t","e">>, <<"u","p","d","a","t","e">>, <<"i","n","s","e","r","t">>, <<"m","o","d","i","f","y">>, <<"r","e","m","o","v","e">>,
                  <<"t","r","u","n","c","a","t","e">>, <<"a","l","t","e","r">>} : Contains(lower(user_question), w))
    => /\ pc = "done"
       /\ response = Response("modification_rejected", <<>>, 0)
       /\ calls = <<>>

\* An upper-case keyword question has been rejected
C3_Witness ==
  /\ pc = "done"
  /\ user_question = <<"D","E","L","E","T","E"," ","o","l","d"," ","u","s","e","r","s">>
  /\ response.kind = "modification_rejected"
  /\ calls = <<>>

\* C4: a question that contains $set, $unset, $push or $pull is rejected before any
\* model or store call, whether or not it contains one of the eight keywords.
C4_OperatorQuestionRejected ==
  (pc # "idle"
   /\ \E w \in {<<"$","s","e","t">>, <<"$","u","n","s","e","t">>, <<"$","p","u","s","h">>, <<"$","p","u","l","l">>} : Contains(user_question, w))
    => /\ pc = "done"
       /\ response.kind = "modification_rejected"
       /\ calls = <<>>

\* C5: every document of a result of the find path, the recovered-aggregate path
\* and the join-template path holds no native identifier, in _id or any other field.
C5_NoNativeIdentifierLeaves ==
  (pc = "done" /\ path \in {"find", "aggregate", "template"} /\ results.t = "arr")
    => \A i \in 1..Len(results.kids) :
         \A j \in 1..Len(results.kids[i].kids) :
           results.kids[i].kids[j].kids[1].t # "oid"

\* C6: the result handed to the formatter holds at most 10 documents on the find,
\* recovered-aggregate and join-template paths and exactly one count document on the
\* count path; the recovered pipeline reaches the store unchanged.
C6_ResultSizeLimits ==
  (pc = "done" /\ results.t = "arr")
    => /\ path \in {"find", "aggregate", "template"} => Len(results.kids) <= 10
       /\ path = "count" =>
            /\ Len(results.kids) = 1
            /\ HasKey(results.kids[1], <<"c","o","u","n","t">>)
            /\ GetKey(results.kids[1], <<"c","o","u","n","t">>) = JNum(selected)
       /\ path = "aggregate" =>
            calls[Len(calls)] =
              Call("store", "aggregate", recovered.collection, recovered.argument)

\* A recovered aggregate for which the store selected more than 10 documents
C6_Witness ==
  /\ pc = "done"
  /\ path = "aggregate"
  /\ selected > 10
  /\ results.t = "arr"
  /\ Len(results.kids) = 10

\* C7: a store failure during the find, count or aggregate of a recovered command
\* (a raising call or a connection that was never established) does not leave
\* process_query as an exception: execute_query returns {error: message}, and the
\* response is an error text carrying the exception's message.
C7_StoreFailureContained ==
  /\ raised = FALSE
  /\ (pc = "done" /\ path \in {"find", "count", "aggregate"} /\ lastExc # <<>>)
       => /\ path = "find" =>
               /\ results = JObj(<<JPair(<<"e","r","r","o","r">>, JStr(lastExc))>>)
               /\ response = Response("error_executing", lastExc, 0)
          /\ path = "count" => response = Response("count_error", lastExc, 0)
          /\ path = "aggregate" => response = Response("execution_error", lastExc, 0)

\* A recovered aggregate whose store call raised
C7_Witness ==
  /\ pc = "done"
  /\ path = "aggregate"
  /\ connected
  /\ lastExc = ExcStore
  /\ calls[Len(calls)] = Call("store", "aggregate", recovered.collection, recovered.argument)
  /\ response.kind = "execution_error"

\* C8: every compiled pipeline has at least one stage: whatever the question and the
\* metadata, the text generate_mongo_query returns decodes to a non-empty pipeline.
C8_CompiledPipelineNonEmpty ==
  gpc = "returned"
    => /\ json_loads(generated).ok
       /\ json_loads(generated).val.t = "arr"
       /\ Len(json_loads(generated).val.kids) >= 1

\* C9: when no collection is ranked or the top score is below 0.3, process_query
\* declines: the model is not called and no store query follows.
C9_LowScoreDeclines ==
  (/\ \E i \in 1..Len(calls) : calls[i].target = "ranker"
   /\ (ranking = <<>> \/ ranking[1].score < 30))
    => /\ pc = "done"
       /\ response.kind = "out_of_scope"
       /\ \A i \in 1..Len(calls) : calls[i].target # "llm"

\* C10: when the answer is an invocation whose argument (the text between the
\* opening parenthesis and the closing one that ends the answer) is a valid JSON
\* object (find / count) or array (aggregate), the recovered argument is the value
\* the argument decodes to as-is.
C10_RecoveryRoundTrip ==
  LET argument_text == SubSeq(query_code, Find(query_code, "(") + 1, Len(query_code) - 1)
  IN (/\ pc \in {"dispatch", "done"}
      /\ recovered.matched
      /\ StartsAt(query_code, 1, <<"d","b",".">>)
      /\ query_code[Len(query_code)] = ")"
      /\ json_loads(argument_text).ok
      /\ json_loads(argument_text).val.t
           = (IF recovered.operation \in FindOperations THEN "obj" ELSE "arr"))
       => recovered.argument = json_loads(argument_text).val

\* C11: when the answer is db.orders.find(<a>) and <a> is the text of a filter
\* object whose keys are all written bare and whose values are valid JSON, the
\* recovered command is collection orders, operation find, and its argument is
\* that filter with every key quoted.
C11_BareKeysRepaired ==
  pc = "dispatch" =>
    \A f \in ValidFilters :
      query_code = Invocation(<<"o","r","d","e","r","s">>, <<"f","i","n","d">>, RenderBare(f)) =>
        recovered = [matched |-> TRUE, collection |-> <<"o","r","d","e","r","s">>,
                     operation |-> <<"f","i","n","d">>, argument |-> f, exc |-> FALSE]

\* C12: once the model's answer (holding none of the reply markers) has gone to the
\* parser, process_query answers 'could not identify MongoDB command' exactly when
\* the answer holds no db.<collection>.<find|aggregate|countDocuments|count>(
\* invocation, and then no store call follows the model call; when it holds one,
\* no defect of the argument stops the request: it reaches the dispatch, and with
\* a connection and an argument that execute_query accepts the store is called on
\* the recovered collection.
C12_OneHardFailure ==
  LET invocation_at(i) ==
        \E e \in (i + 3)..Len(query_code) :
          /\ StartsAt(query_code, i, <<"d","b",".">>)
          /\ \A k \in (i + 3)..e : query_code[k] \in CollectionChars
          /\ \E k \in 1..4 :
               StartsAt(query_code, e + 1, <<".">> \o OperationNames[k] \o <<"(">>)
      has_invocation == \E i \in 1..Len(query_code) : invocation_at(i)
      parsed ==
        /\ pc \in {"dispatch", "done"}
        /\ \E i \in 1..Len(calls) : calls[i].target = "llm"
        /\ ~ContainsAny(query_code, {<<"E","R","R","O","R",":">>, <<"U","N","A","B","L","E","_","T","O","_","Q","U","E","R","Y">>,
                                     <<"M","O","D","I","F","I","C","A","T","I","O","N","_","N","O","T","_","A","L","L","O","W","E","D">>, OutOfScopeMarker})
  IN parsed =>
       /\ (pc = "done" /\ response.kind = "unparseable") <=> ~has_invocation
       /\ ~has_invocation => calls[Len(calls)].target = "llm"
       /\ has_invocation =>
            /\ recovered.matched /\ ~recovered.exc /\ ~raised
            /\ (/\ pc = "done" /\ connected
                /\ ~(recovered.operation = <<"f","i","n","d">> /\ IsModificationQuery(recovered.argument)))
                 => /\ calls[Len(calls)].target = "store"
                    /\ calls[Len(calls)].coll = recovered.collection

\* C12 as stated: the same with the invocation read as
\* <collection>.<find|aggregate|countDocuments|count>( , the db. prefix not required.
C12_AnyCollectionPrefix ==
  LET invocation_at(i) ==
        /\ query_code[i] \in CollectionChars
        /\ \E k \in 1..4 :
             StartsAt(query_code, i + 1, <<".">> \o OperationNames[k] \o <<"(">>)
      has_invocation == \E i \in 1..Len(query_code) : invocation_at(i)
      parsed ==
        /\ pc \in {"dispatch", "done"}
        /\ \E i \in 1..Len(calls) : calls[i].target = "llm"
        /\ ~ContainsAny(query_code, {<<"E","R","R","O","R",":">>, <<"U","N","A","B","L","E","_","T","O","_","Q","U","E","R","Y">>,
                                     <<"M","O","D","I","F","I","C","A","T","I","O","N","_","N","O","T","_","A","L","L","O","W","E","D">>, OutOfScopeMarker})
  IN parsed =>
       /\ (pc = "done" /\ response.kind = "unparseable") <=> ~has_invocation
       /\ ~has_invocation => calls[Len(calls)].target = "llm"
       /\ has_invocation =>
            /\ recovered.matched /\ ~recovered.exc /\ ~raised
            /\ (/\ pc = "done" /\ connected
                /\ ~(recovered.operation = <<"f","i","n","d">> /\ IsModificationQuery(recovered.argument)))
                 => /\ calls[Len(calls)].target = "store"
                    /\ calls[Len(calls)].coll = recovered.collection

\* C12 witness: an answer with an invocation and no argument at all reached the
\* store.
C12_Witness ==
  /\ pc = "done"
  /\ connected
  /\ query_code = <<"d","b",".","o","r","d","e","r","s",".","a","g","g","r","e","g","a","t","e","(",")">>
  /\ calls[Len(calls)] = Call("store", "aggregate", <<"o","r","d","e","r","s">>, EmptyArr)

\* C13: when the scan of the argument reaches the end of the text without the depth
\* returning to zero, the parser does not throw: the argument is what the span
\* from the first opening bracket to the last closing bracket of that kind decodes
\* to once its keys are repaired, and the empty object (find / count) or empty
\* sequence (aggregate) when that fails, when there is no closing bracket, or when
\* the last one lies before the opening bracket.
C13_UnterminatedFallsBack ==
  LET m == SearchInvocation(query_code)
      content == SubSeq(query_code, m.end + 1, Len(query_code))
      is_find == recovered.operation \in FindOperations
      open == IF is_find THEN "{" ELSE "["
      close == IF is_find THEN "}" ELSE "]"
      default == IF is_find THEN EmptyObj ELSE EmptyArr
      start == Find(content, open)
      last == RFind(content, close)
      depth(i) == Cardinality({k \in start..i : content[k] = open})
                    - Cardinality({k \in start..i : content[k] = close})
      unterminated == start > 0 /\ \A i \in start..Len(content) : depth(i) > 0
      decoded == json_loads(FixUnquotedKeys(SubSeq(content, start, last)))
  IN (pc \in {"dispatch", "done"} /\ recovered.matched /\ unterminated) =>
       /\ ~recovered.exc
       /\ ~raised
       /\ recovered.argument = IF last >= start /\ decoded.ok THEN decoded.val ELSE default

\* C13 witness: the fallback span of an unterminated argument decoded.
C13_Witness ==
  /\ pc = "dispatch"
  /\ query_code = <<"d","b",".","o","r","d","e","r","s",".","f","i","n","d","(","{","\"","s","t","a","t","u","s","\"",":"," ","\"","{","\"",","," ","\"","t","a","g","s","\"",":"," ","{","}","}",")">>
  /\ recovered.argument # EmptyObj

\* C14: the intent analyze_question puts in the analysis of a question is one of
\* min_analysis, max_analysis, aggregate_sum, average, count, list.
C14_IntentIsOneOfSix ==
  (gpc \in {"analyzed", "returned"} /\ prompt.t = "str") =>
    analysis.intent \in {<<"m","i","n","_","a","n","a","l","y","s","i","s">>, <<"m","a","x","_","a","n","a","l","y","s","i","s">>, <<"a","g","g","r","e","g","a","t","e","_","s","u","m">>,
                         <<"a","v","e","r","a","g","e">>, <<"c","o","u","n","t">>, <<"l","i","s","t">>}

\* C15: for the question "total sales" and a metadata in which orders is a known
\* collection with a status field and an amount field, generate_query returns the
\* collection orders and exactly the pipeline
\* [{"$match": {"status": "completed"}}, {"$group": {"_id": null, "total": {"$sum": "$amount"}}}].
C15_TotalSalesPipeline ==
  (/\ gpc = "returned"
   /\ prompt = JStr(<<"t","o","t","a","l"," ","s","a","l","e","s">>)
   /\ _has_field(metadata, <<"o","r","d","e","r","s">>, <<"s","t","a","t","u","s">>)
   /\ _has_field(metadata, <<"o","r","d","e","r","s">>, <<"a","m","o","u","n","t">>))
    => /\ generate_query(metadata, prompt.s, analysis).collection = <<"o","r","d","e","r","s">>
       /\ generated = <<"[","{","\"","$","m","a","t","c","h","\"",":"," ","{","\"","s","t","a","t","u","s","\"",":"," ","\"","c","o","m","p","l","e","t","e","d","\"","}","}",","," ","{","\"","$","g","r","o","u","p","\"",":"," ","{","\"","_","i","d","\"",":"," ","n","u","l","l",","," ","\"","t","o","t","a","l","\"",":"," ","{","\"","$","s","u","m","\"",":"," ","\"","$","a","m","o","u","n","t","\"","}","}","}","]">>

\* C16: when the question holds a year ("20" and two digits) and the primary
\* collection has a date-like field (type date, or a name holding "date" or
\* "time"), the compiled pipeline starts with a $match stage whose condition on the
\* first such field, in metadata order, is exactly $gte Y-01-01T00:00:00 and
\* $lt (Y+1)-01-01T00:00:00, Y being the first year of the question.
C16_YearRangeOnFirstDateField ==
  LET q == prompt.s
      years == {i \in 1..(Len(q) - 3) :
                  q[i] = "2" /\ q[i + 1] = "0" /\ q[i + 2] \in Digits /\ q[i + 3] \in Digits}
      first == CHOOSE i \in years : \A k \in years : i <= k
      Y == NatOfDigits(SubSeq(q, first, first + 3))
      primary == analysis.collections[1]
      fields == FieldsOf(metadata, primary)
      dated == {j \in 1..Len(fields) :
                  \/ fields[j].type = <<"d","a","t","e">>
                  \/ Contains(lower(fields[j].name), <<"d","a","t","e">>)
                  \/ Contains(lower(fields[j].name), <<"t","i","m","e">>)}
      date_field == fields[CHOOSE j \in dated : \A k \in dated : j <= k].name
      instant(y) == JObj(<<JPair(<<"$","d","a","t","e">>, JStr(IntRepr(y) \o <<"-","0","1","-","0","1","T","0","0",":","0","0",":","0","0","Z">>))>>)
      pipeline == json_loads(generated).val
      stage == pipeline.kids[1]
  IN (/\ gpc = "returned" /\ prompt.t = "str"
      /\ years # {}
      /\ InSeq(primary, CollectionNames(metadata))
      /\ dated # {})
       => /\ json_loads(generated).ok
          /\ pipeline.t = "arr" /\ pipeline.kids # <<>>
          /\ stage.t = "obj" /\ HasKey(stage, <<"$","m","a","t","c","h">>)
          /\ HasKey(GetKey(stage, <<"$","m","a","t","c","h">>), date_field)
          /\ GetKey(GetKey(stage, <<"$","m","a","t","c","h">>), date_field)
               = JObj(<<JPair(<<"$","g","t","e">>, instant(Y)), JPair(<<"$","l","t">>, instant(Y + 1))>>)

\* C16 witness: a question with two years was compiled for a collection with two
\* date-like fields.
C16_Witness ==
  /\ gpc = "returned"
  /\ prompt = JStr(<<"s","a","l","e","s"," ","o","f"," ","2","0","2","1"," ","a","n","d"," ","2","0","2","5">>)
  /\ Len(_find_date_fields(metadata, analysis.collections[1])) = 2
  /\ Contains(generated, <<"2","0","2","1","-","0","1","-","0","1">>)

\* C17: for a question holding "product" or "item" whose intent is min_analysis, the
\* compiled pipeline is, after the $match stage when the question's filters give
\* one, the join pipeline: $group by $productId summing $amount and $quantity,
\* $lookup into products, $unwind, $project, then {"$sort": {"totalSales": 1}} and
\* {"$limit": 10}; for max_analysis it is the same with sort direction -1.
C17_ProductAnalysisPipeline ==
  LET direction == IF analysis.intent = <<"m","i","n","_","a","n","a","l","y","s","i","s">> THEN <<"1">> ELSE <<"-","1">>
      expected ==
        json_loads(
          <<"[","{","\"","$","g","r","o","u","p","\"",":"," ","{","\"","_","i","d","\"",":"," ","\"","$","p","r","o","d","u","c","t","I","d","\"",","," ","\"","t","o","t","a","l","S","a","l","e","s","\"",":"," ","{","\"","$","s","u","m","\"",":"," ","\"","$","a","m","o","u","n","t","\"","}",","," ","\"","q","u","a","n","t","i","t","y","S","o","l","d","\"",":"," ","{","\"","$","s","u","m","\"",":"," ","\"","$","q","u","a","n","t","i","t","y","\"","}","}","}",","," ">>
          \o <<"{","\"","$","l","o","o","k","u","p","\"",":"," ","{","\"","f","r","o","m","\"",":"," ","\"","p","r","o","d","u","c","t","s","\"",","," ","\"","l","o","c","a","l","F","i","e","l","d","\"",":"," ","\"","_","i","d","\"",","," ","\"","f","o","r","e","i","g","n","F","i","e","l","d","\"",":"," ","\"","_","i","d","\"",","," ","\"","a","s","\"",":"," ","\"","p","r","o","d","u","c","t","\"","}","}",","," ">>
          \o <<"{","\"","$","u","n","w","i","n","d","\"",":"," ","\"","$","p","r","o","d","u","c","t","\"","}",","," ">>
          \o <<"{","\"","$","p","r","o","j","e","c","t","\"",":"," ","{","\"","p","r","o","d","u","c","t","N","a","m","e","\"",":"," ","\"","$","p","r","o","d","u","c","t",".","n","a","m","e","\"",","," ","\"","t","o","t","a","l","S","a","l","e","s","\"",":"," ","1",","," ","\"","q","u","a","n","t","i","t","y","S","o","l","d","\"",":"," ","1","}","}",","," ">>
          \o <<"{","\"","$","s","o","r","t","\"",":"," ","{","\"","t","o","t","a","l","S","a","l","e","s","\"",":"," ">> \o direction \o <<"}","}",","," ","{","\"","$","l","i","m","i","t","\"",":"," ","1","0","}","]">>).val.kids
      stages == json_loads(generated).val.kids
      n == Len(stages)
  IN (/\ gpc = "returned" /\ prompt.t = "str"
      /\ ContainsAny(lower(prompt.s), {<<"p","r","o","d","u","c","t">>, <<"i","t","e","m">>})
      /\ analysis.intent \in {<<"m","i","n","_","a","n","a","l","y","s","i","s">>, <<"m","a","x","_","a","n","a","l","y","s","i","s">>})
       => /\ json_loads(generated).ok
          /\ Len(expected) = 6
          /\ n \in {6, 7}
          /\ SubSeq(stages, n - 5, n) = expected
          /\ n = 7 => HasKey(stages[1], <<"$","m","a","t","c","h">>)

\* C17 witness: "which product sold least" was compiled with intent min_analysis.
C17_Witness ==
  /\ gpc = "returned"
  /\ prompt = JStr(<<"w","h","i","c","h"," ","p","r","o","d","u","c","t"," ","s","o","l","d"," ","l","e","a","s","t">>)
  /\ analysis.intent = <<"m","i","n","_","a","n","a","l","y","s","i","s">>
  /\ Contains(generated, <<"$","l","o","o","k","u","p">>)

\* C18: the argument span starts at the first opening bracket of the expected kind
\* ('{' for find / count, '[' for aggregate) after the invocation's parenthesis and
\* ends at the first position where the count of opening minus closing brackets of
\* that kind, taken from the start of the span, is zero; the argument is what that
\* span decodes to, and the scan never takes a bracket off an empty count.
C18_ArgumentSpan ==
  LET m == SearchInvocation(query_code)
      content == SubSeq(query_code, m.end + 1, Len(query_code))
      is_find == recovered.operation \in FindOperations
      open == IF is_find THEN "{" ELSE "["
      close == IF is_find THEN "}" ELSE "]"
      default == IF is_find THEN EmptyObj ELSE EmptyArr
      start == Find(content, open)
      count(i) == Cardinality({k \in start..i : content[k] = open})
                    - Cardinality({k \in start..i : content[k] = close})
      zeros == {i \in start..Len(content) : count(i) = 0}
      end == CHOOSE i \in zeros : \A k \in zeros : i <= k
  IN (pc \in {"dispatch", "done"} /\ recovered.matched /\ start > 0 /\ zeros # {}) =>
       /\ ~recovered.exc
       /\ \A i \in start..end : count(i) >= 0
       /\ recovered.argument = DecodeBalanced(SubSeq(content, start, end), default)

\* C18 witness: a nested argument was cut at the bracket closing the outer object.
C18_Witness ==
  /\ pc = "dispatch"
  /\ query_code = <<"d","b",".","o","r","d","e","r","s",".","f","i","n","d","(","{","s","t","a","t","u","s",":"," ","\"","c","o","m","p","l","e","t","e","d","\"",","," ","a","m","o","u","n","t",":"," ","{","$","g","t",":"," ","1","0","0","}","}",")">>
  /\ Len(recovered.argument.kids) = 2

\* C19: the argument is the first success of the chain (i) json.loads of the exact
\* span, (ii) json.loads of the span with its bare keys quoted, (iii)
\* ast.literal_eval of the span, (iv) the empty object / sequence, the span being
\* the balanced one when the scan finds it and else the one cut at the last closing
\* bracket.
C19_DecodeChain ==
  LET m == SearchInvocation(query_code)
      content == SubSeq(query_code, m.end + 1, Len(query_code))
      is_find == recovered.operation \in FindOperations
      open == IF is_find THEN "{" ELSE "["
      close == IF is_find THEN "}" ELSE "]"
      default == IF is_find THEN EmptyObj ELSE EmptyArr
      start == Find(content, open)
      count(i) == Cardinality({k \in start..i : content[k] = open})
                    - Cardinality({k \in start..i : content[k] = close})
      zeros == {i \in start..Len(content) : count(i) = 0}
      span == IF zeros # {}
                THEN SubSeq(content, start, CHOOSE i \in zeros : \A k \in zeros : i <= k)
                ELSE SubSeq(content, start, RFind(content, close))
      chain == IF json_loads(span).ok THEN json_loads(span).val
               ELSE IF json_loads(FixUnquotedKeys(span)).ok
                 THEN json_loads(FixUnquotedKeys(span)).val
               ELSE IF literal_eval(span).ok THEN literal_eval(span).val
               ELSE default
  IN (pc \in {"dispatch", "done"} /\ recovered.matched /\ start > 0) =>
       recovered.argument = chain

\* C20: when the text after the invocation has no opening bracket of the expected
\* kind, or json.loads of the span, json.loads of the key-repaired span and
\* ast.literal_eval of the span all fail, the request is not aborted: the argument
\* is the empty object (find / count) or the empty sequence (aggregate), and with a
\* connection exactly one store call of the recovered operation is made on the
\* recovered collection with that empty argument, as the last call of the request.
C20_EmptyArgumentStillDispatched ==
  LET m == SearchInvocation(query_code)
      content == SubSeq(query_code, m.end + 1, Len(query_code))
      is_find == recovered.operation \in FindOperations
      open == IF is_find THEN "{" ELSE "["
      close == IF is_find THEN "}" ELSE "]"
      default == IF is_find THEN EmptyObj ELSE EmptyArr
      start == Find(content, open)
      count(i) == Cardinality({k \in start..i : content[k] = open})
                    - Cardinality({k \in start..i : content[k] = close})
      zeros == {i \in start..Len(content) : count(i) = 0}
      span == IF zeros # {}
                THEN SubSeq(content, start, CHOOSE i \in zeros : \A k \in zeros : i <= k)
                ELSE SubSeq(content, start, RFind(content, close))
      all_fail == /\ ~json_loads(span).ok
                  /\ ~json_loads(FixUnquotedKeys(span)).ok
                  /\ ~literal_eval(span).ok
      store_op == IF recovered.operation = <<"f","i","n","d">> THEN "find"
                  ELSE IF is_find THEN "count_documents" ELSE "aggregate"
      made == {i \in 1..Len(calls) :
                 calls[i] = Call("store", store_op, recovered.collection, default)}
  IN (pc \in {"dispatch", "done"} /\ recovered.matched /\ (start = 0 \/ all_fail)) =>
       /\ ~recovered.exc
       /\ ~raised
       /\ recovered.argument = default
       /\ (pc = "done" /\ connected) =>
            /\ response.kind \notin {"unparseable", "execution_error"} \/ lastExc # <<>>
            /\ Cardinality(made) = 1
            /\ Len(calls) \in made

\* C20 witness: db.orders.find(), which has no argument, ended in one find on orders
\* with the empty object.
C20_Witness ==
  /\ pc = "done"
  /\ connected
  /\ query_code = <<"d","b",".","o","r","d","e","r","s",".","f","i","n","d","(",")">>
  /\ recovered.argument = EmptyObj
  /\ calls[Len(calls)] = Call("store", "find", <<"o","r","d","e","r","s">>, EmptyObj)

\* C21: when the intent is aggregate_sum or average and the primary collection has
\* no field whose name holds amount, total, price, cost, value, revenue or sales,
\* the compiled pipeline ends with the stage {"$count": "total"} and has no $group
\* stage.
C21_CountWhenNoAmountField ==
  LET primary == analysis.collections[1]
      fields == IF InSeq(primary, CollectionNames(metadata))
                  THEN FieldsOf(metadata, primary) ELSE <<>>
      amount_like == \E j \in 1..Len(fields) :
                        ContainsAny(lower(fields[j].name),
                                    {<<"a","m","o","u","n","t">>, <<"t","o","t","a","l">>, <<"p","r","i","c","e">>, <<"c","o","s","t">>, <<"v","a","l","u","e">>,
                                     <<"r","e","v","e","n","u","e">>, <<"s","a","l","e","s">>})
      stages == json_loads(generated).val.kids
  IN (/\ gpc = "returned" /\ prompt.t = "str"
      /\ analysis.intent \in {<<"a","g","g","r","e","g","a","t","e","_","s","u","m">>, <<"a","v","e","r","a","g","e">>}
      /\ ~amount_like)
       => /\ stages # <<>>
          /\ stages[Len(stages)] = JObj(<<JPair(<<"$","c","o","u","n","t">>, JStr(<<"t","o","t","a","l">>))>>)
          /\ \A i \in 1..Len(stages) : ~HasKey(stages[i], <<"$","g","r","o","u","p">>)

\* C22: the first vocabulary rule whose keyword is in the question stops the
\* vocabulary rules and gives the primary candidate when its collection is known;
\* the collection-name scan always runs and appends the collections named in the
\* question; the field-name scan runs only when no candidate was found by then,
\* and the candidates are then the collections one of whose field names is in the
\* question; the list is never empty.
C22_CollectionResolution ==
  LET q == lower(prompt.s)
      names == CollectionNames(metadata)
      if_known(c) == IF InSeq(c, names) THEN <<c>> ELSE <<>>
      vocabulary ==
        IF ContainsAny(q, {<<"p","r","o","d","u","c","t">>, <<"i","t","e","m">>}) THEN if_known(<<"o","r","d","e","r","s">>)
        ELSE IF ContainsAny(q, {<<"s","a","l","e","s">>, <<"r","e","v","e","n","u","e">>, <<"i","n","c","o","m","e">>}) THEN if_known(<<"o","r","d","e","r","s">>)
        ELSE IF ContainsAny(q, {<<"c","u","s","t","o","m","e","r">>, <<"c","l","i","e","n","t">>}) THEN if_known(<<"c","u","s","t","o","m","e","r","s">>)
        ELSE <<>>
      named == SelectSeq(names, LAMBDA c : Contains(q, lower(c)))
      by_field == {metadata[i].name : i \in
                     {i \in 1..Len(metadata) :
                        \E j \in 1..Len(metadata[i].fields) :
                           Contains(q, lower(metadata[i].fields[j].name))}}
      found == analysis.collections
  IN (gpc \in {"analyzed", "returned"} /\ prompt.t = "str") =>
       /\ found # <<>>
       /\ vocabulary \o named # <<>> => found = vocabulary \o named
       /\ (vocabulary \o named = <<>> /\ by_field # {}) =>
            {found[i] : i \in 1..Len(found)} = by_field

\* C22 as stated: the collection-name scan and the field-name scan both always
\* run, so a question that matches a vocabulary rule and holds a field name of
\* another collection has that collection among the candidates.
C22_FieldScanAlwaysRuns ==
  LET q == lower(prompt.s)
      names == CollectionNames(metadata)
      if_known(c) == IF InSeq(c, names) THEN <<c>> ELSE <<>>
      vocabulary ==
        IF ContainsAny(q, {<<"p","r","o","d","u","c","t">>, <<"i","t","e","m">>}) THEN if_known(<<"o","r","d","e","r","s">>)
        ELSE IF ContainsAny(q, {<<"s","a","l","e","s">>, <<"r","e","v","e","n","u","e">>, <<"i","n","c","o","m","e">>}) THEN if_known(<<"o","r","d","e","r","s">>)
        ELSE IF ContainsAny(q, {<<"c","u","s","t","o","m","e","r">>, <<"c","l","i","e","n","t">>}) THEN if_known(<<"c","u","s","t","o","m","e","r","s">>)
        ELSE <<>>
      named == SelectSeq(names, LAMBDA c : Contains(q, lower(c)))
      by_field == {metadata[i].name : i \in
                     {i \in 1..Len(metadata) :
                        \E j \in 1..Len(metadata[i].fields) :
                           Contains(q, lower(metadata[i].fields[j].name))}}
      found == analysis.collections
  IN (gpc \in {"analyzed", "returned"} /\ prompt.t = "str" /\ vocabulary # <<>>) =>
       /\ found[1] = vocabulary[1]
       /\ \A i \in 1..Len(named) : InSeq(named[i], found)
       /\ \A c \in by_field : InSeq(c, found)

\* C22 witness: "revenue by name" was analysed with customers, which has a field
\* name, among the known collections.
C22_Witness ==
  /\ gpc = "analyzed"
  /\ prompt = JStr(<<"r","e","v","e","n","u","e"," ","b","y"," ","n","a","m","e">>)
  /\ InSeq(<<"c","u","s","t","o","m","e","r","s">>, CollectionNames(metadata))
  /\ analysis.collections = <<<<"o","r","d","e","r","s">>>>

\* C23: when process_query has ended for a question that has no prohibited keyword,
\* does not match the join template and whose top collection scores at least 0.3,
\* LocalLLMInterface.generate was called exactly once, and at most one store
\* execution follows that call, exactly one when the answer held a command that
\* was dispatched on a connected store.
C23_OneModelCallThenOneExecution ==
  LET model_calls == {i \in 1..Len(calls) : calls[i].target = "llm"}
      executions == {i \in 1..Len(calls) :
                       /\ calls[i].target = "store"
                       /\ \E k \in model_calls : k < i}
  IN (/\ pc = "done"
      /\ ~IsProhibitedQuestion(user_question)
      /\ ~IsJoinQuestion(lower(user_question))
      /\ ranking # <<>>
      /\ ranking[1].score >= 30)
       => /\ Cardinality(model_calls) = 1
          /\ Cardinality(executions) <= 1
          /\ (connected /\ path \in {"count", "aggregate"}) => Cardinality(executions) = 1

\* C24: a search_collections call that runs while generate_embeddings runs never
\* fails, and the collections it has scored when it returns are those of a
\* complete store: the one before the regeneration or the one after it.
C24_ReadsSeeWholeStore ==
  /\ search_pc # "raised"
  /\ search_pc = "returned" => KeysOf(similarities) \in whole

\* C28: whenever no generate_embeddings call is running, the collections of the
\* embedding store, of vector_search and of the ranker alike, are those of the
\* schema passed to the most recent generate_embeddings.
C28_StoreMatchesLatestSchema ==
  wpc = "idle" =>
    /\ KeysOf(engine_db) = KeysOf(latest)
    /\ KeysOf(ranker_db) = KeysOf(latest)

\* C25: the intent is the outcome of the first rule, in the order least / worst /
\* lowest / bottom, most / best / highest / top, the total sales phrases, total /
\* sum / sales / revenue, count / how many / number of, average / avg / mean,
\* show / list / display / get, max / maximum / highest, min / minimum / lowest,
\* one of whose keywords is in the lower-cased question, whatever later rules
\* match too.
C25_IntentFirstMatch ==
  LET ladder ==
        << [words |-> {<<"l","e","a","s","t">>, <<"w","o","r","s","t">>, <<"l","o","w","e","s","t">>, <<"b","o","t","t","o","m">>}, intent |-> <<"m","i","n","_","a","n","a","l","y","s","i","s">>],
           [words |-> {<<"m","o","s","t">>, <<"b","e","s","t">>, <<"h","i","g","h","e","s","t">>, <<"t","o","p">>}, intent |-> <<"m","a","x","_","a","n","a","l","y","s","i","s">>],
           [words |-> {<<"t","o","t","a","l"," ","s","a","l","e","s">>, <<"t","o","t","a","l"," ","r","e","v","e","n","u","e">>, <<"s","a","l","e","s"," ","t","o","t","a","l">>},
            intent |-> <<"a","g","g","r","e","g","a","t","e","_","s","u","m">>],
           [words |-> {<<"t","o","t","a","l">>, <<"s","u","m">>, <<"s","a","l","e","s">>, <<"r","e","v","e","n","u","e">>}, intent |-> <<"a","g","g","r","e","g","a","t","e","_","s","u","m">>],
           [words |-> {<<"c","o","u","n","t">>, <<"h","o","w"," ","m","a","n","y">>, <<"n","u","m","b","e","r"," ","o","f">>}, intent |-> <<"c","o","u","n","t">>],
           [words |-> {<<"a","v","e","r","a","g","e">>, <<"a","v","g">>, <<"m","e","a","n">>}, intent |-> <<"a","v","e","r","a","g","e">>],
           [words |-> {<<"s","h","o","w">>, <<"l","i","s","t">>, <<"d","i","s","p","l","a","y">>, <<"g","e","t">>}, intent |-> <<"l","i","s","t">>],
           [words |-> {<<"m","a","x">>, <<"m","a","x","i","m","u","m">>, <<"h","i","g","h","e","s","t">>}, intent |-> <<"m","a","x">>],
           [words |-> {<<"m","i","n">>, <<"m","i","n","i","m","u","m">>, <<"l","o","w","e","s","t">>}, intent |-> <<"m","i","n">>] >>
      hits == {k \in 1..Len(ladder) :
                 \E w \in ladder[k].words : Contains(lower(prompt.s), w)}
      first == CHOOSE k \in hits : \A h \in hits : k <= h
  IN (gpc \in {"analyzed", "returned"} /\ prompt.t = "str" /\ hits # {}) =>
       analysis.intent = ladder[first].intent

\* C25 witness: a question with 'total' and 'how many' was analysed as
\* aggregate_sum.
C25_Witness ==
  /\ gpc = "analyzed"
  /\ prompt = JStr(<<"H","o","w"," ","m","a","n","y"," ","i","n"," ","t","o","t","a","l">>)
  /\ analysis.intent = <<"a","g","g","r","e","g","a","t","e","_","s","u","m">>

\* C26: for a question holding none of the intent keywords the intent is list, and
\* the compiled pipeline is, after the $match stage when the filters give one, a
\* $sort stage, descending on the first date-like field of the primary collection
\* or on _id when it has none, then {"$limit": 10}.
C26_DefaultIntentIsList ==
  LET keywords ==
        { <<"l","e","a","s","t">>, <<"w","o","r","s","t">>, <<"l","o","w","e","s","t">>, <<"b","o","t","t","o","m">>, <<"m","o","s","t">>, <<"b","e","s","t">>, <<"h","i","g","h","e","s","t">>,
          <<"t","o","p">>, <<"t","o","t","a","l">>, <<"s","u","m">>, <<"s","a","l","e","s">>, <<"r","e","v","e","n","u","e">>, <<"c","o","u","n","t">>, <<"h","o","w"," ","m","a","n","y">>,
          <<"n","u","m","b","e","r"," ","o","f">>, <<"a","v","e","r","a","g","e">>, <<"a","v","g">>, <<"m","e","a","n">>, <<"s","h","o","w">>, <<"l","i","s","t">>, <<"d","i","s","p","l","a","y">>,
          <<"g","e","t">>, <<"m","a","x">>, <<"m","i","n">> }
      primary == analysis.collections[1]
      fields == IF InSeq(primary, CollectionNames(metadata))
                  THEN FieldsOf(metadata, primary) ELSE <<>>
      dated == {j \in 1..Len(fields) :
                  \/ fields[j].type = <<"d","a","t","e">>
                  \/ Contains(lower(fields[j].name), <<"d","a","t","e">>)
                  \/ Contains(lower(fields[j].name), <<"t","i","m","e">>)}
      sort_field == IF dated = {} THEN <<"_","i","d">>
                    ELSE fields[CHOOSE j \in dated : \A k \in dated : j <= k].name
      stages == json_loads(generated).val.kids
      n == Len(stages)
  IN (/\ gpc = "returned" /\ prompt.t = "str"
      /\ \A w \in keywords : ~Contains(lower(prompt.s), w))
       => /\ analysis.intent = <<"l","i","s","t">>
          /\ n \in {2, 3}
          /\ stages[n] = JObj(<<JPair(<<"$","l","i","m","i","t">>, JNum(10))>>)
          /\ stages[n - 1] = JObj(<<JPair(<<"$","s","o","r","t">>, JObj(<<JPair(sort_field, JNum(-1))>>))>>)
          /\ n = 3 => HasKey(stages[1], <<"$","m","a","t","c","h">>)

\* C26 witness: a question without any intent keyword was compiled, with a year
\* filter, for a collection that has a date-like field.
C26_Witness ==
  /\ gpc = "returned"
  /\ prompt = JStr(<<"c","u","s","t","o","m","e","r","s"," ","i","n"," ","2","0","2","4">>)
  /\ analysis.intent = <<"l","i","s","t">>
  /\ Contains(generated, <<"s","i","g","n","u","p","D","a","t","e">>)

\* C27: when the metadata holds at least one collection, the collection
\* generate_query returns for a question is one of the known collections.
C27_ReturnedCollectionIsKnown ==
  (gpc = "returned" /\ prompt.t = "str" /\ metadata # <<>>) =>
    \E i \in 1..Len(metadata) :
       metadata[i].name = generate_query(metadata, prompt.s, analysis).collection

\* C29: the argument comes from inside the matched invocation: when the first
\* opening bracket of the expected kind lies after the parenthesis that closes the
\* invocation, the recovered argument is the empty object (find / count) or the
\* empty sequence (aggregate), not an object of a later call or of trailing text.
C29_ArgumentInsideInvocation ==
  LET m == SearchInvocation(query_code)
      content == SubSeq(query_code, m.end + 1, Len(query_code))
      is_find == recovered.operation \in FindOperations
      default == IF is_find THEN EmptyObj ELSE EmptyArr
      start == Find(content, IF is_find THEN "{" ELSE "[")
      parens(i) == Cardinality({k \in 1..i : content[k] = ")"})
                     - Cardinality({k \in 1..i : content[k] = "("})
      closing == {i \in 1..Len(content) : parens(i) = 1}
      closed_at == CHOOSE i \in closing : \A k \in closing : i <= k
  IN (/\ pc \in {"dispatch", "done"} /\ recovered.matched
      /\ closing # {}
      /\ start > closed_at)
       => recovered.argument = default

\* C30: for a question with no prohibited word that names orders, a customer word
\* and a detail word, the first collaborator call is one aggregate on orders whose
\* stages are match (the first of completed / pending / cancelled present, else
\* empty), lookup of customers, unwind, project and limit 10; when it succeeds the
\* request ends with the formatted result and no ranker or model call, and the
\* request reaches the prompt step only after that aggregate raised.
C30_JoinTemplatePath ==
  LET q == lower(user_question)
      match == IF Contains(q, <<"c","o","m","p","l","e","t","e","d">>) THEN JObj(<<JPair(<<"s","t","a","t","u","s">>, JStr(<<"c","o","m","p","l","e","t","e","d">>))>>)
               ELSE IF Contains(q, <<"p","e","n","d","i","n","g">>) THEN JObj(<<JPair(<<"s","t","a","t","u","s">>, JStr(<<"p","e","n","d","i","n","g">>))>>)
               ELSE IF Contains(q, <<"c","a","n","c","e","l","l","e","d">>) THEN JObj(<<JPair(<<"s","t","a","t","u","s">>, JStr(<<"c","a","n","c","e","l","l","e","d">>))>>)
               ELSE EmptyObj
      stage_names == <<<<"$","m","a","t","c","h">>, <<"$","l","o","o","k","u","p">>, <<"$","u","n","w","i","n","d">>, <<"$","p","r","o","j","e","c","t">>, <<"$","l","i","m","i","t">>>>
  IN (/\ pc \notin {"idle", "template"}
      /\ ~IsProhibitedQuestion(user_question)
      /\ IsJoinQuestion(q))
       => /\ connected =>
               /\ Len(calls) >= 1
               /\ calls[1].target = "store" /\ calls[1].op = "aggregate"
               /\ calls[1].coll = <<"o","r","d","e","r","s">>
               /\ Len(calls[1].arg.kids) = 5
               /\ \A i \in 1..5 : /\ Len(calls[1].arg.kids[i].kids) = 1
                                  /\ calls[1].arg.kids[i].kids[1].s = stage_names[i]
               /\ GetKey(calls[1].arg.kids[1], <<"$","m","a","t","c","h">>) = match
               /\ GetKey(GetKey(calls[1].arg.kids[2], <<"$","l","o","o","k","u","p">>), <<"f","r","o","m">>) = JStr(<<"c","u","s","t","o","m","e","r","s">>)
               /\ GetKey(calls[1].arg.kids[5], <<"$","l","i","m","i","t">>) = JNum(10)
          /\ path = "template" =>
               /\ pc = "done"
               /\ Len(calls) = 1
               /\ selected >= 0
               /\ response = format_results(results)
          /\ pc = "prompt" => (lastExc # <<>> /\ selected = -1)

\* A connected request naming two statuses ends on the template with documents
C30_Witness ==
  /\ pc = "done" /\ path = "template" /\ connected
  /\ user_question = <<"p","e","n","d","i","n","g"," ","o","r"," ","c","o","m","p","l","e","t","e","d"," ","o","r","d","e","r","s"," ","w","i","t","h"," ","c","u","s","t","o","m","e","r"," ","e","m","a","i","l">>
  /\ Len(calls) = 1
  /\ results.t = "arr" /\ Len(results.kids) > 0
====
